---- MODULE Spec2Model ----
(***************************************************************************)
(* A model of one validation round of the subnet validator                 *)
(* (neurons/validators/validator.py): discovery, response validation,      *)
(* consensus benchmarking, per-miner reward computation and the hand-over  *)
(* of the rewards to update_scores.                                        *)
(*                                                                         *)
(* Python's None is the empty sequence <<>> and a value v is <<v>>, so     *)
(* that "reward is None" is Len(reward) = 0.  Scores are integers in       *)
(* hundredths (a trust of 1.0 is 100).                                     *)
(***************************************************************************)
EXTENDS Integers, Sequences, FiniteSets, TLC

\* ------------------------------------------------------------------ bounds

\* Number of miners (uids) of the metagraph; one round samples all of them.
NumMiners == 3

\* validator_config.benchmark_cluster_size (k of KMeans).
ClusterSize == 2

\* validator_config.benchmark_query_chunk_size.
ChunkSize == 2

\* insights.protocol.MAX_MINER_INSTANCE, scaled to the number of miners.
MAX_MINER_INSTANCE == 1

Miners == 1..NumMiners

\* The (network, start_block_height, block_height) claims a well-formed
\* discovery output may carry, over three networks; <<"bitcoin", 3, 1>> is
\* an inverted range, and the validator has no node for dogecoin.
Claims ==
    {<<"bitcoin", 1, 3>>, <<"bitcoin", 3, 1>>, <<"ethereum", 1, 3>>,
     <<"dogecoin", 1, 3>>}

\* Outputs a miner may give to a benchmark query.
BenchmarkOutputs == {"A", "B"}

\* Values Scorer.calculate_score may return (hundredths).
ScoreValues == {0, 100}

None == <<>>

Some(v) == <<v>>

IsNone(x) == Len(x) = 0

\* ---------------------------------------------------------------- helpers

RECURSIVE SeqMin(_)
SeqMin(s) ==
    IF Len(s) = 1 THEN s[1]
    ELSE LET r == SeqMin(Tail(s)) IN IF s[1] <= r THEN s[1] ELSE r

RECURSIVE Count(_, _)
Count(s, v) ==
    IF s = <<>> THEN 0
    ELSE (IF s[1] = v THEN 1 ELSE 0) + Count(Tail(s), v)

Range(s) == {s[i] : i \in 1..Len(s)}

\* All orderings of the elements of the set S (the outcomes random.shuffle
\* can give them).
Shuffles(S) ==
    {p \in [1..Cardinality(S) -> S] :
        \A i, j \in 1..Cardinality(S) : i # j => p[i] # p[j]}

\* ------------------------------------------------------- metagraph, metadata

\* metagraph.T[uid], the trust of a miner, in hundredths.
Trust(m) == IF m = 1 THEN 0 ELSE 100

\* Axon ip of every miner: all different, or miners 1 and 2 behind one address.
IpLayouts == {[m \in Miners |-> m], [m \in Miners |-> IF m <= 2 THEN 1 ELSE m]}

\* Coldkey of every miner: all different, or miners 2.. owned by one coldkey.
ColdkeyLayouts == {[m \in Miners |-> m], [m \in Miners |-> IF m >= 2 THEN 2 ELSE m]}

\* Hotkeys with committed chain metadata: all, or all but the last miner.
MetaLayouts == {Miners, Miners \ {NumMiners}}

Metagraphs ==
    [ip : IpLayouts, coldkey : ColdkeyLayouts, committed : MetaLayouts]

\* metagraph.axons[uid]: the hotkey of a miner is its uid.
Axon(mg, m) == [hotkey |-> m, ip |-> mg.ip[m]]

\* Metadata.build: the snapshot the anti-abuse check reads.  hotkey_meta is
\* get_metadata_for_hotkey (truthy with a network, or absent), ip_distribution
\* counts the miners per address and coldkey_distribution gives, per hotkey,
\* the number of miners owned by that hotkey's coldkey.
MetadataBuild(mg) ==
    [hotkey_meta |-> [h \in Miners |-> h \in mg.committed],
     ip_distribution |->
        [a \in Miners |-> Cardinality({o \in Miners : mg.ip[o] = a})],
     coldkey_distribution |->
        [h \in Miners |->
            Cardinality({o \in Miners : mg.coldkey[o] = mg.coldkey[h]})]]

\* ---------------------------------------------------------------- responses

NoOutput == [wellformed |-> FALSE, network |-> "none", start |-> 0, last |-> 0]

\* Discovery responses: a transport failure (timeout 408, blacklist 403)
\* carries no output; a 200 response carries a malformed or a well-formed one.
Responses ==
    {[status_code |-> s, output |-> NoOutput] : s \in {408, 403}}
    \cup {[status_code |-> 200, output |-> NoOutput]}
    \cup {[status_code |-> 200,
           output |-> [wellformed |-> TRUE, network |-> c[1],
                       start |-> c[2], last |-> c[3]]] : c \in Claims}
    \cup {[status_code |-> 408,
           output |-> [wellformed |-> TRUE, network |-> "bitcoin",
                       start |-> 1, last |-> 3]]}

is_timeout(response) == response.status_code = 408

is_blacklist(response) == response.status_code = 403

\* ------------------------------------------------------- response validation

is_response_status_code_valid(response) == response.status_code = 200

is_discovery_response_valid(response) == response.output.wellformed

\* Mutant: the coldkey cap is not checked.
is_miner_metadata_valid_ip_only(md, axon) ==
    LET ip_count == md.ip_distribution[axon.ip]
    IN  IF ~md.hotkey_meta[axon.hotkey] THEN FALSE
        ELSE IF ip_count > MAX_MINER_INSTANCE THEN FALSE
        ELSE TRUE

is_miner_metadata_valid(md, axon) ==
    LET ip_count == md.ip_distribution[axon.ip]
        coldkey_count == md.coldkey_distribution[axon.hotkey]
    IN  IF ~md.hotkey_meta[axon.hotkey] THEN FALSE
        ELSE IF ip_count > MAX_MINER_INSTANCE THEN FALSE
        ELSE IF coldkey_count > MAX_MINER_INSTANCE THEN FALSE
        ELSE TRUE

\* Mutant: the three checks are all evaluated and their results combined.
is_response_valid_eager(response, md, axon) ==
    [valid |-> /\ is_response_status_code_valid(response)
               /\ is_discovery_response_valid(response)
               /\ is_miner_metadata_valid(md, axon),
     evaluated |-> <<"status", "structure", "metadata">>]

\* is_response_valid with the checks it evaluated, in evaluation order.
is_response_valid(response, md, axon) ==
    IF ~is_response_status_code_valid(response)
    THEN [valid |-> FALSE, evaluated |-> <<"status">>]
    ELSE IF ~is_discovery_response_valid(response)
    THEN [valid |-> FALSE, evaluated |-> <<"status", "structure">>]
    ELSE IF ~is_miner_metadata_valid(md, axon)
    THEN [valid |-> FALSE, evaluated |-> <<"status", "structure", "metadata">>]
    ELSE [valid |-> TRUE, evaluated |-> <<"status", "structure", "metadata">>]

\* ---------------------------------------------------------- cross-validation

\* What the authoritative node and the miner do during one cross_validate:
\* create_challenge returns (challenge, expected) or raises; the transport
\* returns no response object, a response without output, or an answer;
\* validate_challenge_response_output accepts, rejects or raises.
NoCrossValidation ==
    [create |-> "na", expected |-> 0, response |-> "na", output |-> 0,
     predicate |-> "na", process_time |-> 0]

CrossValidationEnvs ==
    {[create |-> "raise", expected |-> 0, response |-> "na", output |-> 0,
      predicate |-> "na", process_time |-> 0]}
    \cup {[create |-> "ok", expected |-> 42, response |-> r, output |-> 0,
           predicate |-> "na", process_time |-> 0] : r \in {"none", "nooutput"}}
    \cup {[create |-> "ok", expected |-> 42, response |-> "answer",
           output |-> o, predicate |-> p, process_time |-> 1] :
            o \in {41, 42}, p \in {"accept", "reject", "raise"}}

\* The time returned beside False when the response has no output.
NoOutputTime == 128

\* Mutant: a differing answer or a rejecting predicate alone fails the miner
\* ("or" for the "and" of the comparison).
cross_validate_either(env) ==
    IF env.create = "raise"
    THEN [result |-> "Indeterminate", time |-> None,
          challenge |-> 0, query |-> 0, predicate |-> 0]
    ELSE IF env.response = "none"
    THEN [result |-> "Indeterminate", time |-> None,
          challenge |-> 1, query |-> 1, predicate |-> 0]
    ELSE IF env.response = "nooutput"
    THEN [result |-> "Fail", time |-> Some(NoOutputTime),
          challenge |-> 1, query |-> 1, predicate |-> 0]
    ELSE IF env.output # env.expected
    THEN [result |-> "Fail", time |-> Some(env.process_time),
          challenge |-> 1, query |-> 1, predicate |-> 0]
    ELSE IF env.predicate = "raise"
    THEN [result |-> "Indeterminate", time |-> None,
          challenge |-> 1, query |-> 1, predicate |-> 1]
    ELSE IF env.predicate = "reject"
    THEN [result |-> "Fail", time |-> Some(env.process_time),
          challenge |-> 1, query |-> 1, predicate |-> 1]
    ELSE [result |-> "Pass", time |-> Some(env.process_time),
          challenge |-> 1, query |-> 1, predicate |-> 1]

\* Mutant: an exception of the node or of the transport is reported as a
\* failed cross-validation.
cross_validate_raise_is_fail(env) ==
    IF env.create = "raise"
    THEN [result |-> "Fail", time |-> None,
          challenge |-> 0, query |-> 0, predicate |-> 0]
    ELSE IF env.response = "none"
    THEN [result |-> "Fail", time |-> None,
          challenge |-> 1, query |-> 1, predicate |-> 0]
    ELSE IF env.response = "nooutput"
    THEN [result |-> "Fail", time |-> Some(NoOutputTime),
          challenge |-> 1, query |-> 1, predicate |-> 0]
    ELSE IF env.output = env.expected
    THEN [result |-> "Pass", time |-> Some(env.process_time),
          challenge |-> 1, query |-> 1, predicate |-> 0]
    ELSE IF env.predicate = "raise"
    THEN [result |-> "Fail", time |-> None,
          challenge |-> 1, query |-> 1, predicate |-> 1]
    ELSE IF env.predicate = "reject"
    THEN [result |-> "Fail", time |-> Some(env.process_time),
          challenge |-> 1, query |-> 1, predicate |-> 1]
    ELSE [result |-> "Pass", time |-> Some(env.process_time),
          challenge |-> 1, query |-> 1, predicate |-> 1]

\* cross_validate: its (result, time) pair and the calls it made.  The result
\* is "Pass" (True), "Fail" (False) or "Indeterminate" (None).
cross_validate(env) ==
    IF env.create = "raise"
    THEN [result |-> "Indeterminate", time |-> None,
          challenge |-> 0, query |-> 0, predicate |-> 0]
    ELSE IF env.response = "none"
    THEN \* response.dendrite on None raises AttributeError
         [result |-> "Indeterminate", time |-> None,
          challenge |-> 1, query |-> 1, predicate |-> 0]
    ELSE IF env.response = "nooutput"
    THEN [result |-> "Fail", time |-> Some(NoOutputTime),
          challenge |-> 1, query |-> 1, predicate |-> 0]
    ELSE IF env.output = env.expected
    THEN [result |-> "Pass", time |-> Some(env.process_time),
          challenge |-> 1, query |-> 1, predicate |-> 0]
    ELSE IF env.predicate = "raise"
    THEN [result |-> "Indeterminate", time |-> None,
          challenge |-> 1, query |-> 1, predicate |-> 1]
    ELSE IF env.predicate = "reject"
    THEN [result |-> "Fail", time |-> Some(env.process_time),
          challenge |-> 1, query |-> 1, predicate |-> 1]
    ELSE [result |-> "Pass", time |-> Some(env.process_time),
          challenge |-> 1, query |-> 1, predicate |-> 1]

\* ------------------------------------------------------------------- reward

\* Mutant: get_reward pings the miner before it checks the response.
StoppedAfterPing(reward, gate) ==
    [reward |-> reward, gate |-> gate, up |-> 0, down |-> 1, ping |-> 1,
     cv |-> "notrun", challenge |-> 0, query |-> 0, scorer |-> 0]

\* The outcome of a get_reward that stopped at one of the three response
\* checks, before ping and cross-validation: down is recorded once.
Stopped(reward, gate) ==
    [reward |-> reward, gate |-> gate, up |-> 0, down |-> 1, ping |-> 0,
     cv |-> "notrun", challenge |-> 0, query |-> 0, scorer |-> 0]

\* Mutant: get_reward records down as soon as cross_validate has returned,
\* also on the way to up.
ContinuedDownFirst(c, reward, gate, up, scorer) ==
    [reward |-> reward, gate |-> gate, up |-> up, down |-> 1,
     ping |-> 1, cv |-> c.result,
     challenge |-> c.challenge, query |-> c.query, scorer |-> scorer]

\* The outcome of a get_reward that pinged and cross-validated (c is what
\* cross_validate returned): it records down when it stops at a gate and up
\* (line 230) when it passes them all; scorer tells whether calculate_score
\* (line 233) was then called, which takes the arguments of lines 234-240
\* to evaluate.
Continued(c, reward, gate, up, scorer) ==
    [reward |-> reward, gate |-> gate, up |-> up, down |-> 1 - up,
     ping |-> 1, cv |-> c.result,
     challenge |-> c.challenge, query |-> c.query, scorer |-> scorer]

\* The outcome of a get_reward whose claimed network has no node: the
\* lookup self.nodes[network] of line 202 raises KeyError after ping and
\* before cross_validate is called, no down is recorded, and the handler of
\* lines 244-246 returns None.
RaisedAtNode ==
    [reward |-> None, gate |-> "exception", up |-> 0, down |-> 0, ping |-> 1,
     cv |-> "notrun", challenge |-> 0, query |-> 0, scorer |-> 0]

\* Mutant: an Indeterminate cross-validation is scored like a failed one.
after_cross_validation_no_skip(c, benchmark_result, score, cached) ==
    IF c.result = "Indeterminate"
    THEN Continued(c, Some(0), "cross_validation", 0, 0)
    ELSE IF c.result = "Fail"
    THEN Continued(c, Some(0), "cross_validation", 0, 0)
    ELSE IF IsNone(benchmark_result)
    THEN Continued(c, None, "benchmark", 0, 0)
    ELSE IF ~benchmark_result[1]
    THEN Continued(c, Some(0), "benchmark", 0, 0)
    ELSE IF ~cached
    THEN Continued(c, None, "exception", 1, 0)
    ELSE Continued(c, Some(score), "scored", 1, 1)

\* Mutant: a failed cross-validation does not return and falls through to the
\* benchmark stage.
after_cross_validation_fall_through(c, benchmark_result, score, cached) ==
    IF c.result = "Indeterminate"
    THEN Continued(c, None, "cross_validation", 0, 0)
    ELSE IF IsNone(benchmark_result)
    THEN Continued(c, None, "benchmark", 0, 0)
    ELSE IF ~benchmark_result[1]
    THEN Continued(c, Some(0), "benchmark", 0, 0)
    ELSE IF ~cached
    THEN Continued(c, None, "exception", 1, 0)
    ELSE Continued(c, Some(score), "scored", 1, 1)

\* Mutant: a benchmark output that disagrees with the majority is scored like
\* an agreeing one.
after_cross_validation_any_benchmark(c, benchmark_result, score, cached) ==
    IF c.result = "Indeterminate"
    THEN Continued(c, None, "cross_validation", 0, 0)
    ELSE IF c.result = "Fail"
    THEN Continued(c, Some(0), "cross_validation", 0, 0)
    ELSE IF IsNone(benchmark_result)
    THEN Continued(c, None, "benchmark", 0, 0)
    ELSE IF ~cached
    THEN Continued(c, None, "exception", 1, 0)
    ELSE Continued(c, Some(score), "scored", 1, 1)

\* get_reward from the result of cross_validate on: the cross-validation
\* gate, the benchmark gate, then up and the Scorer. cached tells whether
\* block_height_cache has an entry for the claimed network: without one the
\* argument self.block_height_cache[network] of line 238 raises KeyError
\* after up was recorded, calculate_score is not called, and the handler of
\* lines 244-246 returns None.
after_cross_validation(c, benchmark_result, score, cached) ==
    IF c.result = "Indeterminate"
    THEN Continued(c, None, "cross_validation", 0, 0)
    ELSE IF c.result = "Fail"
    THEN Continued(c, Some(0), "cross_validation", 0, 0)
    ELSE IF IsNone(benchmark_result)
    THEN Continued(c, None, "benchmark", 0, 0)
    ELSE IF ~benchmark_result[1]
    THEN Continued(c, Some(0), "benchmark", 0, 0)
    ELSE IF ~cached
    THEN Continued(c, None, "exception", 1, 0)
    ELSE Continued(c, Some(score), "scored", 1, 1)

\* Mutant: a response with a bad status code is skipped, like an
\* Indeterminate cross-validation, instead of being given half the trust.
get_reward_bad_status_skipped(response, m, axon, md, benchmark_result, env, score, nodes, cache) ==
    IF ~is_response_status_code_valid(response)
    THEN Stopped(None, "status")
    ELSE IF ~is_discovery_response_valid(response)
    THEN Stopped(Some(0), "structure")
    ELSE IF ~is_miner_metadata_valid(md, axon)
    THEN Stopped(Some(0), "metadata")
    ELSE IF response.output.network \notin nodes
    THEN RaisedAtNode
    ELSE after_cross_validation(cross_validate(env), benchmark_result, score,
                                response.output.network \in cache)

\* get_reward(response, uid, benchmarks_result): the reward it returns (None,
\* or a value), the gate it stopped at, and the calls it made on the way:
\* up/down of the uptime manager, ping, the challenge created and the query
\* sent by cross_validate, and Scorer.calculate_score. nodes are the
\* networks self.nodes has a node for and cache the networks
\* self.block_height_cache has a height for.
get_reward(response, m, axon, md, benchmark_result, env, score, nodes, cache) ==
    IF ~is_response_status_code_valid(response)
    THEN Stopped(Some(Trust(m) \div 2), "status")
    ELSE IF ~is_discovery_response_valid(response)
    THEN Stopped(Some(0), "structure")
    ELSE IF ~is_miner_metadata_valid(md, axon)
    THEN Stopped(Some(0), "metadata")
    ELSE IF response.output.network \notin nodes
    THEN RaisedAtNode
    ELSE after_cross_validation(cross_validate(env), benchmark_result, score,
                                response.output.network \in cache)

\* ---------------------------------------------------------------- benchmarks

RECURSIVE Dedup(_)
\* The distinct elements of s in order of first appearance (dict key order).
Dedup(s) ==
    IF s = <<>> THEN <<>>
    ELSE <<s[1]>> \o SelectSeq(Dedup(Tail(s)), LAMBDA x : x # s[1])

RECURSIVE Flatten(_)
Flatten(ss) == IF ss = <<>> THEN <<>> ELSE ss[1] \o Flatten(Tail(ss))

\* Mutant: only full slices are kept, the remainder of the list is dropped.
chunk_responses_full_only(responses_, chunk_size) ==
    [i \in 1..(Len(responses_) \div chunk_size) |->
        SubSeq(responses_, (i - 1) * chunk_size + 1, i * chunk_size)]

\* chunk_responses: consecutive slices of at most chunk_size elements.
chunk_responses(responses, chunk_size) ==
    [i \in 1..((Len(responses) + chunk_size - 1) \div chunk_size) |->
        SubSeq(responses, (i - 1) * chunk_size + 1,
               IF i * chunk_size <= Len(responses)
               THEN i * chunk_size ELSE Len(responses))]

\* Mutant: the common range of a cluster is taken over its first chunk only.
network_clusters_first_chunk(network, items, resp, labels, order) ==
    LET labelSeq == Dedup([i \in 1..Len(items) |-> labels[items[i]]])
        cluster(l) ==
            LET group == SelectSeq(order,
                            LAMBDA u : u \in Range(items) /\ labels[u] = l)
                head == chunk_responses(group, ChunkSize)[1]
            IN  [network |-> network, label |-> l,
                 common_start |->
                    SeqMin([i \in 1..Len(head) |-> resp[head[i]].output.start]),
                 common_end |->
                    SeqMin([i \in 1..Len(head) |-> resp[head[i]].output.last]),
                 responses |-> chunk_responses(group, ChunkSize)]
    IN  [i \in 1..Len(labelSeq) |-> cluster(labelSeq[i])]

\* The clusters group_responses builds for one network from its items (uids in
\* response order), given the KMeans label of every uid and the order random
\* shuffling gives the uids: one record per label, in order of first
\* appearance, with the cluster's common range and its chunks.
network_clusters(network, items, resp, labels, order) ==
    LET labelSeq == Dedup([i \in 1..Len(items) |-> labels[items[i]]])
        cluster(l) ==
            LET group == SelectSeq(order,
                            LAMBDA u : u \in Range(items) /\ labels[u] = l)
            IN  [network |-> network, label |-> l,
                 common_start |->
                    SeqMin([i \in 1..Len(group) |-> resp[group[i]].output.start]),
                 common_end |->
                    SeqMin([i \in 1..Len(group) |-> resp[group[i]].output.last]),
                 responses |-> chunk_responses(group, ChunkSize)]
    IN  [i \in 1..Len(labelSeq) |-> cluster(labelSeq[i])]

\* group_responses: the clusters of every network, networks in order of first
\* appearance; KMeans raises ValueError for a network with fewer items than
\* clusters, and that network is skipped.
network_items(valid, resp, n) ==
    SelectSeq(valid, LAMBDA u : resp[u].output.network = n)

\* The uids KMeans labels: those of the networks with enough items.
clustered_uids(valid, resp) ==
    {u \in Range(valid) :
        Len(network_items(valid, resp, resp[u].output.network)) >= ClusterSize}

group_responses(valid, resp, labels, order) ==
    LET nets == Dedup([i \in 1..Len(valid) |-> resp[valid[i]].output.network])
        items(n) == network_items(valid, resp, n)
        clustered == SelectSeq(nets, LAMBDA n : Len(items(n)) >= ClusterSize)
    IN  Flatten([i \in 1..Len(clustered) |->
            network_clusters(clustered[i], items(clustered[i]), resp,
                             labels, order)])

\* execute_benchmarks(group, query) reads group['responses'], and run_benchmarks
\* passes it a chunk, which is a list: the subscript raises TypeError before
\* any miner is queried.  results would hold the [uid, output] entries of the
\* members with an output.
execute_benchmarks(group, answers) ==
    [raised |-> TRUE, results |-> <<>>]

\* Mutant: among the values of highest count the one inserted last wins.
most_common_last_seen(outputs) ==
    LET best(v) == \A w \in Range(outputs) : Count(outputs, w) <= Count(outputs, v)
        firstAt(v) == CHOOSE i \in 1..Len(outputs) :
                        outputs[i] = v /\ \A j \in 1..(i - 1) : outputs[j] # v
    IN  CHOOSE v \in Range(outputs) :
            best(v) /\ \A w \in Range(outputs) :
                          best(w) => firstAt(v) >= firstAt(w)

\* Mutant: the output of the first collected response wins, whatever the
\* counts are.
most_common_head(outputs) == outputs[1]

\* Counter(outputs).most_common(1)[0][0]: a value of highest count, the one
\* inserted first among equals.
most_common(outputs) ==
    LET best(v) == \A w \in Range(outputs) : Count(outputs, w) <= Count(outputs, v)
        firstAt(v) == CHOOSE i \in 1..Len(outputs) :
                        outputs[i] = v /\ \A j \in 1..(i - 1) : outputs[j] # v
    IN  CHOOSE v \in Range(outputs) :
            best(v) /\ \A w \in Range(outputs) :
                          best(w) => firstAt(v) <= firstAt(w)

\* Mutant: an output is marked as agreeing only if at least two responders
\* gave it.
vote_quorum(benchmark_results_, results) ==
    IF Len(benchmark_results_) = 0 THEN results
    ELSE LET outs == [i \in 1..Len(benchmark_results_) |->
                         benchmark_results_[i].output[1]]
             winner == most_common(outs)
         IN  [u \in Miners |->
                IF \E i \in 1..Len(benchmark_results_) :
                      benchmark_results_[i].uid = Some(u)
                THEN LET i == CHOOSE i \in 1..Len(benchmark_results_) :
                                benchmark_results_[i].uid = Some(u)
                     IN  Some(/\ benchmark_results_[i].output[1] = winner
                              /\ Count(outs, winner) >= 2)
                ELSE results[u]]

\* The vote of run_benchmarks over one chunk's benchmark_results: results[uid]
\* becomes (response_time, output == most common output).
vote(benchmark_results, results) ==
    IF Len(benchmark_results) = 0 THEN results
    ELSE LET outs == [i \in 1..Len(benchmark_results) |->
                         benchmark_results[i].output[1]]
             winner == most_common(outs)
         IN  [u \in Miners |->
                IF \E i \in 1..Len(benchmark_results) :
                      benchmark_results[i].uid = Some(u)
                THEN LET i == CHOOSE i \in 1..Len(benchmark_results) :
                                benchmark_results[i].uid = Some(u)
                     IN  Some(benchmark_results[i].output[1] = winner)
                ELSE results[u]]

RECURSIVE run_benchmarks_loop(_, _, _)
\* The loop of run_benchmarks over the chunks of all clusters: an exception of
\* execute_benchmarks is not caught and ends run_benchmarks.
run_benchmarks_loop(chunks, answers, results) ==
    IF chunks = <<>> THEN [raised |-> FALSE, results |-> results]
    ELSE LET r == execute_benchmarks(chunks[1], answers)
         IN  IF r.raised THEN [raised |-> TRUE, results |-> results]
             ELSE run_benchmarks_loop(Tail(chunks), answers,
                                      vote(r.results, results))

\* The variables run_benchmarks gives the benchmark query script for a chunk
\* of the cluster group_info (the random diff is left out).
benchmark_query(group_info) ==
    [network |-> group_info.network,
     start_block |-> group_info.common_start,
     end_block |-> group_info.common_end]

\* The chunks run_benchmarks iterates over, each with the query built for it.
chunk_queries(groups_) ==
    Flatten([i \in 1..Len(groups_) |->
        [j \in 1..Len(groups_[i].responses) |->
            [query |-> benchmark_query(groups_[i]),
             chunk |-> groups_[i].responses[j]]]])

\* The chunks run_benchmarks iterates over, in iteration order.
all_chunks(groups) == Flatten([i \in 1..Len(groups) |-> groups[i].responses])

\* run_benchmarks(filtered_responses), from the grouping it computed.
run_benchmarks(groups, answers) ==
    run_benchmarks_loop(all_chunks(groups), answers, [u \in Miners |-> None])

\* ------------------------------------------------------------------- state

VARIABLES
    pc,                 \* where forward is: idle, validate, benchmark, reward,
                        \* update, done, or aborted (forward raised)
    idx,                \* position in uids of the miner the current loop is at
    metagraph,          \* axon ip, coldkey and chain commitment of every miner
    metadata,           \* self.metadata, built by sync_validator
    responses,          \* the discovery responses of the round, by uid
    verdict,            \* is_response_valid of each response: "Valid",
                        \* "Invalid", or "none" before it is evaluated
    evaluated,          \* the checks is_response_valid evaluated, in order
    groups,             \* what group_responses returned
    answers,            \* the output each member of the chunk handed to
                        \* execute_benchmarks holds for the benchmark query
    benchmarks_result,  \* what run_benchmarks returned, by uid
    benchmark_results,  \* the local benchmark_results of run_benchmarks: what
                        \* execute_benchmarks returned for the current chunk
    outcome,            \* what get_reward did for each uid (<<>> before)
    challenge_env,      \* the uid and the environment of the cross_validate
                        \* call of the latest get_reward, if it made one
    uptime,             \* up and down calls of the round, by uid
    score_updates,      \* the (uid, reward) pairs handed to update_scores
    update_calls,       \* calls of update_scores in the round
    startup,            \* the validator process: construction, sync_validator
                        \* and how the process ended, if it did
    fetch,              \* one process_miner or process_neuron call of
                        \* storage.py: its loop position and its result
    indexer,            \* the miner's indexer process: shutdown_flag, the
                        \* heights of node and graph, the index_blocks loop
    miner,              \* the miner neuron: its weight-setting clock, its
                        \* registration loop, or the request it serves
    codec               \* a metadata value, its compact string and what
                        \* from_compact made of the string

vars == <<pc, idx, metagraph, metadata, responses, verdict, evaluated, groups,
          answers, benchmarks_result, benchmark_results, outcome,
          challenge_env, uptime, score_updates, update_calls,
          startup, fetch, indexer, miner, codec>>

(* The variables of the other processes: the validator's round leaves them. *)
other_vars == <<startup, fetch, indexer, miner, codec>>

(* The validator process before Validator() is entered. *)
StartupIdle == [pc |-> "idle"]

(* No process_miner or process_neuron call is under way. *)
FetchIdle == [pc |-> "idle"]

(* The indexer process is not part of the validator's round. *)
IndexerIdle == [pc |-> "idle"]

(* The miner neuron is not part of the validator's round. *)
MinerIdle == [pc |-> "idle"]

(* No metadata is being encoded or decoded. *)
CodecIdle == [pc |-> "idle"]

OthersIdle ==
    /\ startup = StartupIdle
    /\ fetch = FetchIdle
    /\ indexer = IndexerIdle
    /\ miner = MinerIdle
    /\ codec = CodecIdle

\* The sampled uids of a round, in order.
uids == [i \in 1..NumMiners |-> i]

NoResponse == [status_code |-> 0, output |-> NoOutput]

\* The round's variables before forward has done anything.
Fresh ==
    [idx |-> 1,
     responses |-> [m \in Miners |-> NoResponse],
     verdict |-> [m \in Miners |-> "none"],
     evaluated |-> [m \in Miners |-> <<>>],
     groups |-> <<>>,
     answers |-> [m \in Miners |-> None],
     benchmarks_result |-> [m \in Miners |-> None],
     benchmark_results |-> <<>>,
     outcome |-> [m \in Miners |-> <<>>],
     challenge_env |-> [uid |-> 0, env |-> NoCrossValidation],
     uptime |-> [m \in Miners |-> [up |-> 0, down |-> 0]],
     score_updates |-> <<>>,
     update_calls |-> 0]

(* insights.__version__ and validator_config.version are version strings. *)
Versions == {"1.0", "1.1"}

(* The networks a validator config can list and NodeFactory makes nodes    *)
(* for.                                                                    *)
NodeNetworks == {"bitcoin", "ethereum"}

(* What validator_config.get_networks() can return: a list. *)
NetworkLists ==
    {<<"bitcoin">>, <<"ethereum">>, <<"bitcoin", "ethereum">>,
     <<"ethereum", "bitcoin">>}

(* What ValidatorConfig().load_and_get_config_values() can return. *)
ValidatorConfigs ==
    [version_update : BOOLEAN, version : Versions, networks : NetworkLists]

(* sync_validator, lines 402-411, from the config it loads (line 404), the *)
(* nodes __init__ created (line 92), the networks whose node answers       *)
(* get_current_block_height, and the running version.  Line 408 goes       *)
(* through the networks in the order of the list and nothing is inside a   *)
(* try: the first network without a node raises KeyError, the first node   *)
(* that does not answer raises its own exception, whichever comes first.   *)
(* The version is compared only after all heights were read.               *)
sync_validator(cfg, nodes, answering, running) ==
    LET failing == {i \in 1..Len(cfg.networks) :
                      \/ cfg.networks[i] \notin nodes
                      \/ cfg.networks[i] \notin answering}
    IN  IF failing # {}
        THEN LET first == CHOOSE i \in failing : \A j \in failing : i <= j
             IN  [result |-> "raise",
                  cause |-> IF cfg.networks[first] \notin nodes
                            THEN "KeyError" ELSE "node"]
        ELSE IF cfg.version_update = TRUE /\ cfg.version # running
        THEN [result |-> "exit", cause |-> "version"]
        ELSE [result |-> "return", cause |-> "none"]

(* How a sync_validator call leaves the process: exit(3) ends it; an       *)
(* exception leaves the call and ends in `raised`, the pc the caller goes  *)
(* to; a return leaves the validator running.                              *)
after_sync(st, cfg, s, raised) ==
    [st EXCEPT !.version_update = cfg.version_update,
               !.version = cfg.version,
               !.networks = cfg.networks,
               !.cause = s.cause,
               !.pc = CASE s.result = "exit" -> "exited"
                        [] s.result = "raise" -> raised
                        [] OTHER -> "running",
               !.exit_code = CASE s.result = "exit" -> Some(3)
                               [] s.result = "raise" /\ raised = "crashed"
                                    -> Some(1)
                               [] OTHER -> None]

(* A validator whose construction returned: version 1.0 runs, the config   *)
(* asks for no upgrade and lists bitcoin and ethereum, for which nodes     *)
(* were made (line 92) and heights were read (lines 93 and 408).           *)
StartupRunning ==
    [pc |-> "running", running |-> "1.0", version_update |-> FALSE,
     version |-> "1.0", networks |-> <<"bitcoin", "ethereum">>,
     nodes |-> {"bitcoin", "ethereum"}, cause |-> "none", exit_code |-> None]

(* The running validators get_reward may be called in: the nodes are those *)
(* of the networks listed at construction (line 92), the heights those of  *)
(* the networks of a config loaded since (line 408), all of which have a   *)
(* node or sync_validator would have raised.                               *)
RunningValidators ==
    {[StartupRunning EXCEPT !.nodes = Range(l0), !.networks = l] :
        <<l0, l>> \in {p \in NetworkLists \X NetworkLists :
                          Range(p[2]) \subseteq Range(p[1])}}

Init ==
    /\ startup = StartupRunning
    /\ fetch = FetchIdle
    /\ indexer = IndexerIdle
    /\ miner = MinerIdle
    /\ codec = CodecIdle
    /\ pc = "idle"
    /\ metagraph \in Metagraphs
    /\ metadata = MetadataBuild(metagraph)
    /\ idx = Fresh.idx
    /\ responses = Fresh.responses
    /\ verdict = Fresh.verdict
    /\ evaluated = Fresh.evaluated
    /\ groups = Fresh.groups
    /\ answers = Fresh.answers
    /\ benchmarks_result = Fresh.benchmarks_result
    /\ benchmark_results = Fresh.benchmark_results
    /\ outcome = Fresh.outcome
    /\ challenge_env = Fresh.challenge_env
    /\ uptime = Fresh.uptime
    /\ score_updates = Fresh.score_updates
    /\ update_calls = Fresh.update_calls


\* ------------------------------------------------------------------ actions

\* resync_metagraph of a running validator between rounds, lines 413-415:
\* the base class replaces the metagraph, then sync_validator rebuilds the
\* metadata snapshot from it (line 403), loads the config and reads the
\* heights: it returns, ends the process with exit(3), or raises, and an
\* exception leaves resync_metagraph for the caller in the base class.
resync_metagraph ==
    /\ pc = "idle"
    /\ startup.pc = "running"
    /\ \E mg \in Metagraphs, cfg \in ValidatorConfigs,
          answering \in SUBSET NodeNetworks :
          /\ metagraph' = mg
          /\ metadata' = MetadataBuild(mg)
          /\ startup' = after_sync(startup, cfg,
                           sync_validator(cfg, startup.nodes, answering,
                                          startup.running),
                           "raised")
    /\ UNCHANGED <<pc, idx, responses, verdict, evaluated, groups, answers,
                   benchmarks_result, benchmark_results, outcome,
                   challenge_env, uptime, score_updates, update_calls>>
    /\ UNCHANGED <<fetch, indexer, miner, codec>>

\* forward, the discovery query: one response per sampled miner.
forward_discovery ==
    /\ pc = "idle"
    /\ startup.pc = "running"
    /\ responses' \in [Miners -> Responses]
    /\ pc' = "validate"
    /\ UNCHANGED <<idx, metagraph, metadata, verdict, evaluated, groups,
                   answers, benchmarks_result, benchmark_results, outcome,
                   challenge_env, uptime,
                   score_updates, update_calls>>
    /\ UNCHANGED other_vars

\* Mutant: validation marks an Invalid miner down in the uptime store.
validate_response_marking_down(m) ==
    LET v == is_response_valid(responses[m], metadata, Axon(metagraph, m))
    IN  /\ verdict' = [verdict EXCEPT ![m] = IF v.valid THEN "Valid" ELSE "Invalid"]
        /\ evaluated' = [evaluated EXCEPT ![m] = v.evaluated]
        /\ uptime' = [uptime EXCEPT ![m].down = IF v.valid THEN @ ELSE @ + 1]
        /\ UNCHANGED <<metagraph, metadata, responses, groups, answers,
                       benchmarks_result, benchmark_results, outcome, challenge_env,
                       score_updates, update_calls>>
        /\ UNCHANGED other_vars

\* One evaluation of is_response_valid(response) in forward's filter.
validate_response(m) ==
    LET v == is_response_valid(responses[m], metadata, Axon(metagraph, m))
    IN  /\ verdict' = [verdict EXCEPT ![m] = IF v.valid THEN "Valid" ELSE "Invalid"]
        /\ evaluated' = [evaluated EXCEPT ![m] = v.evaluated]
        /\ UNCHANGED <<metagraph, metadata, responses, groups, answers,
                       benchmarks_result, benchmark_results, outcome,
                       challenge_env, uptime,
                       score_updates, update_calls>>
        /\ UNCHANGED other_vars

\* forward, the filter that builds responses_to_benchmark, one response at
\* a time in sampled order.
forward_validate ==
    /\ pc = "validate"
    /\ validate_response(uids[idx])
    /\ idx' = IF idx = NumMiners THEN 1 ELSE idx + 1
    /\ pc' = IF idx = NumMiners THEN "benchmark" ELSE "validate"

\* responses_to_benchmark: the uids whose response is valid, in order.
responses_to_benchmark == SelectSeq(uids, LAMBDA u : verdict[u] = "Valid")

\* The outputs the miners of the first chunk hold for the benchmark query
\* (None: the miner gives no output).
AnswerChoices(g) ==
    LET first == IF all_chunks(g) = <<>> THEN {} ELSE Range(all_chunks(g)[1])
    IN  {[m \in Miners |-> IF m \in first THEN a[m] ELSE None] :
            a \in [first -> {None} \cup {Some(o) : o \in BenchmarkOutputs}]}

\* The KMeans labels of the clustered uids (0 stands for no label elsewhere):
\* every partition of them into at most ClusterSize clusters.  The number
\* KMeans gives a cluster is only a dictionary key, so each partition is taken
\* once, its clusters numbered in order of first appearance.
LabelChoices(S) ==
    {[m \in Miners |-> IF m \in S THEN l[m] ELSE 0] :
        l \in {f \in [S -> 0..(ClusterSize - 1)] :
                 \A m \in S :
                    f[m] <= Cardinality({f[o] : o \in {x \in S : x < m}})}}

\* forward, benchmarks_result = run_benchmarks(responses_to_benchmark); an
\* exception of run_benchmarks is not caught by forward.
forward_run_benchmarks ==
    /\ pc = "benchmark"
    /\ \E labels \in LabelChoices(clustered_uids(responses_to_benchmark, responses)),
          order \in Shuffles(clustered_uids(responses_to_benchmark, responses)) :
         LET g == group_responses(responses_to_benchmark, responses, labels, order)
         IN  \E a \in AnswerChoices(g) :
               LET r == run_benchmarks(g, a)
               IN  /\ groups' = g
                   /\ answers' = a
                   /\ benchmarks_result' = r.results
                   /\ pc' = IF r.raised THEN "aborted" ELSE "reward"
    /\ UNCHANGED <<idx, metagraph, metadata, responses, verdict, evaluated,
                   benchmark_results, outcome, challenge_env, uptime,
                   score_updates, update_calls>>
    /\ UNCHANGED other_vars

\* The networks self.block_height_cache has a height for: those of the
\* config the validator loaded last (lines 93 and 408).
block_height_cache == Range(startup.networks)

\* The environments get_reward for miner m may meet: the node and the miner
\* are consulted only if get_reward gets to cross_validate.
EnvChoices(m) ==
    LET o == get_reward(responses[m], m, Axon(metagraph, m), metadata,
                        benchmarks_result[m], NoCrossValidation, 0,
                        startup.nodes, block_height_cache)
    IN  IF o.cv = "notrun" THEN {NoCrossValidation}
        ELSE CrossValidationEnvs

\* The values the Scorer may return to get_reward for miner m: it is
\* consulted only if get_reward gets to calculate_score.
ScoreChoices(m, env) ==
    LET o == get_reward(responses[m], m, Axon(metagraph, m), metadata,
                        benchmarks_result[m], env, 0,
                        startup.nodes, block_height_cache)
    IN  IF o.scorer = 0 THEN {0} ELSE ScoreValues

\* One call get_reward(response, uid, benchmarks_result) for miner m: what it
\* returned and did is kept in outcome, and its up or down call reaches the
\* uptime manager.
get_reward_call(m) ==
    \E env \in EnvChoices(m) :
    \E score \in ScoreChoices(m, env) :
        LET o == get_reward(responses[m], m, Axon(metagraph, m), metadata,
                            benchmarks_result[m], env, score,
                            startup.nodes, block_height_cache)
        IN  /\ outcome' = [outcome EXCEPT ![m] = <<o>>]
            /\ challenge_env' =
                  IF o.cv = "notrun" THEN Fresh.challenge_env
                  ELSE [uid |-> m, env |-> env]
            /\ uptime' = [uptime EXCEPT ![m] =
                             [up |-> @.up + o.up, down |-> @.down + o.down]]

\* forward, one get_reward(response, uid, benchmarks_result) of the rewards
\* list, in sampled order.
forward_get_reward ==
    /\ pc = "reward"
    /\ get_reward_call(uids[idx])
    /\ idx' = IF idx = NumMiners THEN 1 ELSE idx + 1
    /\ pc' = IF idx = NumMiners THEN "update" ELSE "reward"
    /\ UNCHANGED <<metagraph, metadata, responses, verdict, evaluated, groups,
                   answers, benchmarks_result, benchmark_results,
                   score_updates, update_calls>>
    /\ UNCHANGED other_vars

\* filtered_data of forward: the sampled uids whose reward is not None.
filtered_data == SelectSeq(uids, LAMBDA u : ~IsNone(outcome[u][1].reward))

\* Mutant: the rewards that are not None are paired with the first sampled
\* uids instead of their own.
forward_update_scores_shifted ==
    /\ pc = "update"
    /\ IF filtered_data # <<>>
       THEN /\ score_updates' =
                 [i \in 1..Len(filtered_data) |->
                    <<uids[i], outcome[filtered_data[i]][1].reward[1]>>]
            /\ update_calls' = update_calls + 1
       ELSE UNCHANGED <<score_updates, update_calls>>
    /\ pc' = "done"
    /\ UNCHANGED <<idx, metagraph, metadata, responses, verdict, evaluated,
                   groups, answers, benchmarks_result, benchmark_results,
                   outcome, challenge_env, uptime>>
    /\ UNCHANGED other_vars

\* forward, the hand-over: update_scores(rewards, uids) unless every reward
\* is None.
forward_update_scores ==
    /\ pc = "update"
    /\ IF filtered_data # <<>>
       THEN /\ score_updates' =
                 [i \in 1..Len(filtered_data) |->
                    <<filtered_data[i], outcome[filtered_data[i]][1].reward[1]>>]
            /\ update_calls' = update_calls + 1
       ELSE UNCHANGED <<score_updates, update_calls>>
    /\ pc' = "done"
    /\ UNCHANGED <<idx, metagraph, metadata, responses, verdict, evaluated,
                   groups, answers, benchmarks_result, benchmark_results,
                   outcome, challenge_env,
                   uptime>>
    /\ UNCHANGED other_vars

\* The next call of forward starts from a fresh round.
next_round ==
    /\ pc = "done"
    /\ pc' = "idle"
    /\ idx' = Fresh.idx
    /\ responses' = Fresh.responses
    /\ verdict' = Fresh.verdict
    /\ evaluated' = Fresh.evaluated
    /\ groups' = Fresh.groups
    /\ answers' = Fresh.answers
    /\ benchmarks_result' = Fresh.benchmarks_result
    /\ benchmark_results' = Fresh.benchmark_results
    /\ outcome' = Fresh.outcome
    /\ challenge_env' = Fresh.challenge_env
    /\ uptime' = Fresh.uptime
    /\ score_updates' = Fresh.score_updates
    /\ update_calls' = Fresh.update_calls
    /\ UNCHANGED <<metagraph, metadata>>
    /\ UNCHANGED other_vars

Next ==
    \/ resync_metagraph
    \/ forward_discovery
    \/ forward_validate
    \/ forward_run_benchmarks
    \/ forward_get_reward
    \/ forward_update_scores
    \/ next_round

Spec == Init /\ [][Next]_vars

\* ------------------------------------------------- the vote, on its own

\* A metagraph without shared addresses or coldkeys, every hotkey committed.
PlainMetagraph ==
    [ip |-> [m \in Miners |-> m], coldkey |-> [m \in Miners |-> m],
     committed |-> Miners]

\* The lists run_benchmarks may hold as benchmark_results when it comes to the
\* vote: one (uid, response_time, output) entry per responder, the uids
\* distinct and every output not None, in any order.
BenchmarkResultLists ==
    UNION {{[i \in 1..Cardinality(S) |->
                [uid |-> Some(p[i]), output |-> Some(o[p[i]])]] :
              p \in Shuffles(S), o \in [S -> BenchmarkOutputs]} :
           S \in SUBSET Miners}

\* run_benchmarks is at the vote over one chunk, with empty results so far.
VoteInit ==
    /\ OthersIdle
    /\ pc = "vote"
    /\ benchmark_results \in BenchmarkResultLists
    /\ metagraph = PlainMetagraph
    /\ metadata = MetadataBuild(metagraph)
    /\ idx = Fresh.idx
    /\ responses = Fresh.responses
    /\ verdict = Fresh.verdict
    /\ evaluated = Fresh.evaluated
    /\ groups = Fresh.groups
    /\ answers = Fresh.answers
    /\ benchmarks_result = Fresh.benchmarks_result
    /\ outcome = Fresh.outcome
    /\ challenge_env = Fresh.challenge_env
    /\ uptime = Fresh.uptime
    /\ score_updates = Fresh.score_updates
    /\ update_calls = Fresh.update_calls

\* run_benchmarks, the vote over the chunk's benchmark_results.
run_benchmarks_vote ==
    /\ pc = "vote"
    /\ benchmarks_result' = vote(benchmark_results, benchmarks_result)
    /\ pc' = "voted"
    /\ UNCHANGED <<idx, metagraph, metadata, responses, verdict, evaluated,
                   groups, answers, benchmark_results, outcome, challenge_env,
                   uptime, score_updates, update_calls>>
    /\ UNCHANGED other_vars

VoteNext == run_benchmarks_vote

VoteSpec == VoteInit /\ [][VoteNext]_vars

\* --------------------------------------------- get_reward, on its own

\* The entries forward's benchmarks_result may hold for a uid: none, or
\* (response_time, agreed with the majority).
BenchmarkResults == {None, Some(TRUE), Some(FALSE)}

\* get_reward(response, uid, benchmarks_result) is about to run for one miner,
\* for every response, metagraph and benchmark result it may be given, in
\* every running validator.
RewardInit ==
    /\ startup \in RunningValidators
    /\ fetch = FetchIdle
    /\ indexer = IndexerIdle
    /\ miner = MinerIdle
    /\ codec = CodecIdle
    /\ pc = "get_reward"
    /\ \E u \in Miners, r \in Responses, b \in BenchmarkResults,
          mg \in Metagraphs :
          LET v == is_response_valid(r, MetadataBuild(mg), Axon(mg, u))
          IN  /\ idx = u
              /\ metagraph = mg
              /\ responses = [Fresh.responses EXCEPT ![u] = r]
              /\ benchmarks_result = [Fresh.benchmarks_result EXCEPT ![u] = b]
              /\ verdict = [Fresh.verdict EXCEPT
                              ![u] = IF v.valid THEN "Valid" ELSE "Invalid"]
              /\ evaluated = [Fresh.evaluated EXCEPT ![u] = v.evaluated]
    /\ metadata = MetadataBuild(metagraph)
    /\ groups = Fresh.groups
    /\ answers = Fresh.answers
    /\ benchmark_results = Fresh.benchmark_results
    /\ outcome = Fresh.outcome
    /\ challenge_env = Fresh.challenge_env
    /\ uptime = Fresh.uptime
    /\ score_updates = Fresh.score_updates
    /\ update_calls = Fresh.update_calls

\* The call of get_reward for that miner.
get_reward_alone ==
    /\ pc = "get_reward"
    /\ get_reward_call(idx)
    /\ pc' = "returned"
    /\ UNCHANGED <<idx, metagraph, metadata, responses, verdict, evaluated,
                   groups, answers, benchmarks_result, benchmark_results,
                   score_updates, update_calls>>
    /\ UNCHANGED other_vars

RewardNext == get_reward_alone

RewardSpec == RewardInit /\ [][RewardNext]_vars

\* ------------------------------------------------------------ vocabulary

\* get_reward has run for miner m in this round.
Processed(m) == outcome[m] # <<>>

\* What get_reward did for a processed miner.
Out(m) == outcome[m][1]

\* The latest get_reward was for miner m and called cross_validate.
Challenged(m) == challenge_env.uid = m

Env == challenge_env.env

\* A (uid, reward) pair for miner m was handed to update_scores.
Handed(m) == \E i \in 1..Len(score_updates) : score_updates[i][1] = m

HandedReward(m) ==
    LET i == CHOOSE i \in 1..Len(score_updates) : score_updates[i][1] = m
    IN  score_updates[i][2]

\* The miners sharing m's axon address, and those owned by m's coldkey.
SameAddress(m) == {o \in Miners : metagraph.ip[o] = metagraph.ip[m]}

SameColdkey(m) == {o \in Miners : metagraph.coldkey[o] = metagraph.coldkey[m]}

\* The claimed range fails the sanity checks of the cross-validator.
InsaneRange(response) ==
    \/ response.output.last <= response.output.start
    \/ response.output.start <= 0

\* ------------------------------------------------------------------ claims

\* C1 as stated: a (uid, reward) pair is handed to update_scores only for a
\* miner whose response was Valid and whose cross-validation outcome was not
\* Indeterminate; an Invalid response produces no reward.
C1_OnlyValidRewarded ==
    \A m \in Miners :
        Handed(m) =>
            /\ verdict[m] = "Valid"
            /\ Out(m).cv \in {"Pass", "Fail"}

\* C1 (amended): when the round reaches update_scores, a miner whose response
\* was Valid is handed a pair only if its cross-validation outcome was not
\* Indeterminate, and a miner whose response was Invalid is handed a penalty
\* pair that the Scorer did not compute: 0 for a malformed or over-threshold
\* response, half of the miner's trust for a status other than 200.
C1_RewardGate ==
    pc = "done" =>
        \A m \in Miners :
            /\ (verdict[m] = "Valid" /\ Handed(m)) => Out(m).cv \in {"Pass", "Fail"}
            /\ (verdict[m] = "Valid" /\ Out(m).cv = "Indeterminate") => ~Handed(m)
            /\ verdict[m] = "Invalid" =>
                /\ Handed(m)
                /\ Out(m).scorer = 0
                /\ HandedReward(m) =
                      IF responses[m].status_code = 200 THEN 0
                      ELSE Trust(m) \div 2

C1_Witness ==
    /\ pc = "done"
    /\ \E m \in Miners :
          /\ verdict[m] = "Invalid" /\ responses[m].status_code = 200
          /\ Handed(m) /\ HandedReward(m) = 0
    /\ \E m \in Miners :
          /\ verdict[m] = "Invalid" /\ responses[m].status_code # 200
          /\ Handed(m) /\ HandedReward(m) > 0
    /\ \E m \in Miners :
          verdict[m] = "Valid" /\ Out(m).cv = "Indeterminate" /\ ~Handed(m)

\* C2 as stated: when the miner gives no response to the challenge, or a
\* response without output, cross_validate is Indeterminate, never Fail, and
\* the miner is not scored 0.
C2_NoOutputIsIndeterminate ==
    \A m \in Miners :
        (Challenged(m) /\ Env.response \in {"none", "nooutput"}) =>
            /\ Out(m).cv = "Indeterminate"
            /\ Out(m).reward # Some(0)

\* C3 as stated: for a claimed range with end <= start or start <= 0,
\* cross-validation is Fail and neither a challenge is created nor a query
\* sent to the miner.
C3_InsaneRangeFailsOffline ==
    \A m \in Miners :
        (Processed(m) /\ verdict[m] = "Valid" /\ InsaneRange(responses[m])) =>
            /\ Out(m).cv = "Fail"
            /\ Out(m).challenge = 0
            /\ Out(m).query = 0
            /\ Out(m).ping = 0

\* C4: when the miner answers the challenge, cross_validate is Pass iff the
\* answer equals the expected answer or the node's predicate accepts it, and
\* Fail iff the answer differs and the predicate rejects it.
C4_AnswerDecides ==
    \A m \in Miners :
        (Challenged(m) /\ Env.response = "answer") =>
            LET e == Env
            IN  /\ Out(m).cv = "Pass" <=>
                      (e.output = e.expected \/ e.predicate = "accept")
                /\ Out(m).cv = "Fail" <=>
                      (e.output # e.expected /\ e.predicate = "reject")

C4_Witness ==
    \E m, o \in Miners :
        /\ Challenged(m) /\ Env.response = "answer"
        /\ Env.expected = 42 /\ Env.output = 41
        /\ Env.predicate = "reject" /\ Out(m).cv = "Fail"
        /\ Processed(o) /\ Out(o).cv = "Pass"

\* The result of one check of is_response_valid, by name.
CheckPasses(name, m) ==
    IF name = "status" THEN is_response_status_code_valid(responses[m])
    ELSE IF name = "structure" THEN is_discovery_response_valid(responses[m])
    ELSE is_miner_metadata_valid(metadata, Axon(metagraph, m))

CheckOrder == <<"status", "structure", "metadata">>

\* C5: is_response_valid is Valid iff the status is 200, the output is well
\* formed and the anti-abuse check passes; the checks are evaluated in that
\* order and none is evaluated after one failed; timeouts and blacklist
\* responses are Invalid.
C5_ChecksInOrder ==
    \A m \in Miners :
        verdict[m] # "none" =>
            LET ev == evaluated[m]
            IN  /\ verdict[m] = "Valid" <=>
                      \A i \in 1..Len(CheckOrder) : CheckPasses(CheckOrder[i], m)
                /\ Len(ev) \in 1..Len(CheckOrder)
                /\ \A i \in 1..Len(ev) : ev[i] = CheckOrder[i]
                /\ \A i \in 1..(Len(ev) - 1) : CheckPasses(ev[i], m)
                /\ Len(ev) < Len(CheckOrder) => ~CheckPasses(ev[Len(ev)], m)
                /\ (is_timeout(responses[m]) \/ is_blacklist(responses[m])) =>
                      verdict[m] = "Invalid"

C5_Witness ==
    /\ \E m \in Miners :
          /\ is_timeout(responses[m]) /\ responses[m].output.wellformed
          /\ verdict[m] = "Invalid" /\ evaluated[m] = <<"status">>
    /\ \E m \in Miners :
          /\ verdict[m] = "Invalid" /\ evaluated[m] = <<"status", "structure">>
    /\ \E m \in Miners : verdict[m] = "Valid"

\* C6: a response of a miner whose address is shared by more than
\* MAX_MINER_INSTANCE miners, or whose coldkey owns more than
\* MAX_MINER_INSTANCE miners, is Invalid whatever its data.
C6_AntiAbuseCaps ==
    \A m \in Miners :
        (/\ verdict[m] # "none"
         /\ \/ Cardinality(SameAddress(m)) > MAX_MINER_INSTANCE
            \/ Cardinality(SameColdkey(m)) > MAX_MINER_INSTANCE) =>
            verdict[m] = "Invalid"

C6_Witness ==
    \E m \in Miners :
        /\ responses[m].status_code = 200
        /\ responses[m].output.wellformed
        /\ ~InsaneRange(responses[m])
        /\ m \in metagraph.committed
        /\ Cardinality(SameAddress(m)) <= MAX_MINER_INSTANCE
        /\ Cardinality(SameColdkey(m)) > MAX_MINER_INSTANCE
        /\ verdict[m] = "Invalid"

\* C7 as stated: whenever cross-validation Failed or the discovery response
\* is structurally invalid, the reward of the miner is exactly 0 and the
\* Scorer is not invoked for it.
C7_FailedScoresZero ==
    \A m \in Miners :
        (/\ Processed(m)
         /\ \/ Out(m).cv = "Fail"
            \/ ~is_discovery_response_valid(responses[m])) =>
            /\ Out(m).reward = Some(0)
            /\ Out(m).scorer = 0

\* C7 (amended): whenever cross-validation Failed, or the response has status
\* 200 and is structurally invalid, the reward of the miner is exactly 0 and
\* the Scorer is not invoked for it; a response with another status is
\* rewarded half of the miner's trust, well formed or not, without the Scorer.
C7_FailedScoresZeroAfterStatus ==
    \A m \in Miners :
        Processed(m) =>
            /\ (\/ Out(m).cv = "Fail"
                \/ /\ is_response_status_code_valid(responses[m])
                   /\ ~is_discovery_response_valid(responses[m])) =>
                  /\ Out(m).reward = Some(0)
                  /\ Out(m).scorer = 0
            /\ ~is_response_status_code_valid(responses[m]) =>
                  /\ Out(m).reward = Some(Trust(m) \div 2)
                  /\ Out(m).scorer = 0

C7_Witness ==
    /\ \E m \in Miners :
          Processed(m) /\ Out(m).cv = "Fail" /\ Out(m).reward = Some(0)
    /\ \E m \in Miners :
          /\ Processed(m) /\ responses[m].status_code = 200
          /\ ~responses[m].output.wellformed /\ Out(m).reward = Some(0)
    /\ \E m \in Miners :
          /\ Processed(m) /\ responses[m].status_code = 408
          /\ ~responses[m].output.wellformed /\ Out(m).reward = Some(50)

\* The state response validation must leave alone.
ValidatorState ==
    <<metagraph, metadata, responses, groups, answers, benchmarks_result,
      benchmark_results,
      outcome, uptime, score_updates, update_calls>>

\* The gates of get_reward that repeat the checks of is_response_valid.
ValidationGates == {"status", "structure", "metadata"}

\* C8: response validation has no side effect (a step of forward's filter
\* changes nothing but the verdict it computes), and the verdict is a function
\* of the response and the metadata snapshot: get_reward, which evaluates the
\* same checks later in the round, stops at one of them iff the verdict was
\* Invalid.
C8_ValidationIsPure ==
    /\ [][pc = "validate" => UNCHANGED ValidatorState]_vars
    /\ [](\A m \in Miners :
            Processed(m) =>
                (verdict[m] = "Invalid" <=> Out(m).gate \in ValidationGates))

C8_Witness ==
    /\ pc = "done"
    /\ \E m \in Miners :
          verdict[m] = "Invalid" /\ Out(m).gate = "metadata" /\ uptime[m].down = 1
    /\ \E m \in Miners :
          verdict[m] = "Valid" /\ Out(m).gate = "cross_validation"

\* The members of the chunks of the round's clusters.
Benchmarked == UNION {Range(c) : c \in Range(all_chunks(groups))}

\* C9: no ping, challenge or benchmark dispatch ever concerns a miner whose
\* response is Invalid, nor a miner whose verdict is not yet reached.
C9_NoRoundTripForInvalid ==
    \A m \in Miners :
        /\ verdict[m] = "none" => (~Processed(m) /\ m \notin Benchmarked)
        /\ verdict[m] = "Invalid" =>
            /\ m \notin Benchmarked
            /\ Processed(m) =>
                /\ Out(m).ping = 0
                /\ Out(m).challenge = 0
                /\ Out(m).query = 0

C9_Witness ==
    /\ pc = "done"
    /\ \E m \in Miners :
          /\ verdict[m] = "Invalid" /\ Processed(m)
          /\ Out(m).ping = 0 /\ Out(m).query = 0
    /\ \E m \in Miners :
          /\ verdict[m] = "Valid" /\ Processed(m)
          /\ Out(m).ping = 1 /\ Out(m).query = 1

\* The members of the chunk handed to execute_benchmarks that hold an output.
Responders(chunk) == SelectSeq(chunk, LAMBDA u : ~IsNone(answers[u]))

\* C10 as stated: once a chunk with at least one responder has been
\* benchmarked, a member is marked agreeing iff it responded and its output
\* equals the majority output of the chunk's responders.
C10_MajorityMarksAgreeing ==
    (pc \notin {"idle", "validate", "benchmark"} /\ all_chunks(groups) # <<>>) =>
        LET chunk == all_chunks(groups)[1]
            resp == Responders(chunk)
            majority == most_common([i \in 1..Len(resp) |-> answers[resp[i]][1]])
        IN  resp # <<>> =>
                \A m \in Range(chunk) :
                    benchmarks_result[m] = Some(TRUE) <=>
                        (~IsNone(answers[m]) /\ answers[m][1] = majority)

\* The outputs of the collected benchmark responses, in collection order.
Outputs == [i \in 1..Len(benchmark_results) |-> benchmark_results[i].output[1]]

\* No output was given by more responders than v.
TopCount(v) == \A w \in Range(Outputs) : Count(Outputs, w) <= Count(Outputs, v)

\* The responders that gave output v.
Holders(v) ==
    {benchmark_results[i].uid[1] :
        i \in {j \in 1..Len(benchmark_results) : Outputs[j] = v}}

\* The miners the vote marked as agreeing.
Agreeing == {u \in Miners : benchmarks_result[u] = Some(TRUE)}

\* Two or more outputs share the highest count.
Tied == Cardinality({v \in Range(Outputs) : TopCount(v)}) >= 2

\* C11: when two or more outputs are tied for the highest count, the vote
\* takes as majority the tied output that comes first in the list of collected
\* responses: exactly its holders are marked as agreeing.
C11_TieGoesToFirstSeen ==
    (pc = "voted" /\ Tied) =>
        \E i \in 1..Len(benchmark_results) :
            /\ TopCount(Outputs[i])
            /\ \A j \in 1..(i - 1) : ~TopCount(Outputs[j])
            /\ Agreeing = Holders(Outputs[i])
            /\ \A u \in Holders(Outputs[i]) : benchmarks_result[u] = Some(TRUE)

C11_Witness ==
    /\ pc = "voted"
    /\ Tied
    /\ Outputs[1] = "B"
    /\ Agreeing = Holders("B")
    /\ \E u \in Miners : benchmarks_result[u] = Some(FALSE)

\* One output has a strictly higher count than every other.
StrictMajority ==
    \E v \in Range(Outputs) :
        \A w \in Range(Outputs) \ {v} : Count(Outputs, w) < Count(Outputs, v)

\* Every ordering of the list s.
Orderings(s) ==
    {[i \in 1..Len(s) |-> s[p[i]]] : p \in Shuffles(1..Len(s))}

\* C12: when one output has a strictly highest count, the majority value and
\* the marks the vote gives are the same for every ordering of the collected
\* responses.
C12_VoteIgnoresOrder ==
    (pc = "voted" /\ StrictMajority) =>
        \A q \in Orderings(benchmark_results) :
            /\ vote(q, [u \in Miners |-> None]) = benchmarks_result
            /\ most_common([i \in 1..Len(q) |-> q[i].output[1]])
                  = most_common(Outputs)

C12_Witness ==
    /\ pc = "voted"
    /\ StrictMajority
    /\ Len(benchmark_results) >= 3
    /\ ~TopCount(Outputs[1])
    /\ Cardinality(Agreeing) >= 2
    /\ benchmarks_result[benchmark_results[1].uid[1]] = Some(FALSE)

\* C14: when exactly one response was collected, its sender is marked as
\* agreeing, whatever its output.
C14_SoleResponderAgrees ==
    (pc = "voted" /\ Len(benchmark_results) = 1) =>
        benchmarks_result[benchmark_results[1].uid[1]] = Some(TRUE)

C14_Witness ==
    /\ pc = "voted"
    /\ Len(benchmark_results) = 1
    /\ Outputs[1] = "B"
    /\ Agreeing = {benchmark_results[1].uid[1]}

\* run_benchmarks has run (or raised) in this round.
BenchmarksDone == pc \in {"reward", "update", "done", "aborted"}

\* C13 as stated: when the benchmarked chunk has no member with an output, no
\* benchmark result is recorded for its members, none of them is handed a
\* reward, and the round goes on without error.
C13_EmptyGroupIsSkipped ==
    (/\ BenchmarksDone
     /\ all_chunks(groups) # <<>>
     /\ Responders(all_chunks(groups)[1]) = <<>>) =>
        /\ pc # "aborted"
        /\ \A m \in Range(all_chunks(groups)[1]) :
              IsNone(benchmarks_result[m]) /\ ~Handed(m)

Networks == {c[1] : c \in Claims}

\* The uids with a valid response that declares network n.
ValidOn(n) == network_items(responses_to_benchmark, responses, n)

\* C15 as stated: a network with fewer valid claims than the cluster count is
\* left out of the grouping and none of its miners is benchmarked, no
\* exception leaves run_benchmarks, and every network with enough valid claims
\* is still clustered.
C15_SmallNetworkSkipped ==
    BenchmarksDone =>
        \A n \in Networks :
            (Len(ValidOn(n)) > 0 /\ Len(ValidOn(n)) < ClusterSize) =>
                /\ \A i \in 1..Len(groups) : groups[i].network # n
                /\ Range(ValidOn(n)) \cap Benchmarked = {}
                /\ pc # "aborted"
                /\ \A o \in Networks :
                      Len(ValidOn(o)) >= ClusterSize =>
                          \E i \in 1..Len(groups) : groups[i].network = o

\* The members of a cluster: those of all its chunks.
Members(g) == UNION {Range(g.responses[j]) : j \in 1..Len(g.responses)}

\* C16: for every cluster of group_responses, common_start is the least
\* start_block_height and common_end the least block_height over all members
\* of the cluster, and the query of every chunk of the cluster is built from
\* these two values.
C16_CommonRange ==
    \A i \in 1..Len(groups) :
        LET g == groups[i]
        IN  /\ \A m \in Members(g) :
                  /\ g.common_start <= responses[m].output.start
                  /\ g.common_end <= responses[m].output.last
            /\ \E m \in Members(g) : g.common_start = responses[m].output.start
            /\ \E m \in Members(g) : g.common_end = responses[m].output.last
            /\ \A q \in Range(chunk_queries(groups)) :
                  (Range(q.chunk) \subseteq Members(g)) =>
                      /\ q.query.start_block = g.common_start
                      /\ q.query.end_block = g.common_end

C16_Witness ==
    \E i \in 1..Len(groups) :
        LET g == groups[i]
        IN  /\ Len(g.responses) = 2
            /\ g.common_start = 1
            /\ g.common_end = 1
            /\ \A m \in Range(g.responses[1]) : responses[m].output.start = 3
            /\ \A m \in Range(g.responses[2]) : responses[m].output.last = 3

\* C17: the chunks partition the clustered responses: every valid response
\* of a clustered network is in exactly one chunk, of a cluster of its own
\* network, every chunk is non-empty and holds at most
\* benchmark_query_chunk_size members, and nothing else is in a chunk.
C17_ChunksPartition ==
    BenchmarksDone =>
        /\ \A u \in clustered_uids(responses_to_benchmark, responses) :
              /\ Count(Flatten(all_chunks(groups)), u) = 1
              /\ \E i \in 1..Len(groups) :
                    /\ u \in Members(groups[i])
                    /\ groups[i].network = responses[u].output.network
        /\ \A j \in 1..Len(all_chunks(groups)) :
              /\ all_chunks(groups)[j] # <<>>
              /\ Len(all_chunks(groups)[j]) <= ChunkSize
        /\ Benchmarked \subseteq clustered_uids(responses_to_benchmark, responses)

C17_Witness ==
    /\ BenchmarksDone
    /\ Len(groups) = 1
    /\ Len(all_chunks(groups)) = 2
    /\ Cardinality(Benchmarked) = 3
    /\ Flatten(all_chunks(groups))[1] = 3

\* C18 as stated: every member of a chunk is sent the benchmark query, the
\* answers of the members with an output are collected into the results, and
\* the benchmark stage completes with a result map.
C18_ChunksBenchmarked ==
    (BenchmarksDone /\ all_chunks(groups) # <<>>) =>
        /\ pc # "aborted"
        /\ \A m \in Range(all_chunks(groups)[1]) :
              IsNone(answers[m]) <=> IsNone(benchmarks_result[m])

\* C19: over one get_reward for a miner at most one up or down call is made
\* for it, and the uptime manager has received no other call for it.
C19_OneUptimeUpdate ==
    \A m \in Miners :
        /\ uptime[m].up + uptime[m].down <= 1
        /\ Processed(m) =>
              /\ Out(m).up + Out(m).down <= 1
              /\ uptime[m] = [up |-> Out(m).up, down |-> Out(m).down]

C19_Witness ==
    /\ pc = "returned"
    /\ Processed(idx)
    /\ uptime[idx] = [up |-> 1, down |-> 0]

\* C20: up is recorded for a miner only if its response passed response
\* validation, its cross-validation passed and its benchmark output agreed
\* with the majority, and the Scorer is invoked only for a miner with up
\* recorded.
C20_UpOnlyAfterAllGates ==
    \A m \in Miners :
        Processed(m) =>
            /\ Out(m).up = 1 =>
                  /\ verdict[m] = "Valid"
                  /\ Out(m).cv = "Pass"
                  /\ benchmarks_result[m] = Some(TRUE)
            /\ Out(m).scorer = 1 => (Out(m).up = 1 /\ uptime[m].up = 1)

C20_Witness ==
    /\ pc = "returned"
    /\ Out(idx).up = 1
    /\ Out(idx).scorer = 1
    /\ Out(idx).reward = Some(100)
    /\ verdict[idx] = "Valid"
    /\ benchmarks_result[idx] = Some(TRUE)

\* forward has come to its end for this round, by returning or by raising.
RoundOver == pc \in {"done", "aborted"}

\* A reason for which a miner's round counts as failed or not taken part in:
\* what its response is and, where get_reward ran, what its cross-validation
\* and its benchmark entry were.
FailedRound(m) ==
    \/ responses[m].status_code # 200
    \/ ~responses[m].output.wellformed
    \/ ~is_miner_metadata_valid(metadata, Axon(metagraph, m))
    \/ /\ Processed(m)
       /\ \/ Out(m).cv \in {"Fail", "Indeterminate"}
          \/ benchmarks_result[m] = Some(FALSE)
          \/ IsNone(benchmarks_result[m])

\* C21 as stated: in every round, down is recorded for a sampled miner with a
\* bad status code, a malformed output, a failed anti-abuse check, a failed
\* or Indeterminate cross-validation, a disagreeing benchmark output or no
\* benchmark result.
C21_DownOnEveryFailure ==
    \A m \in Miners :
        (RoundOver /\ FailedRound(m)) => uptime[m].down = 1

\* C22 as stated: the stages of a round are barriers; no miner has been
\* through cross-validation and has had its reward computed while a miner
\* with a Valid response has not been cross-validated yet.
C22_StagesAreBarriers ==
    \A m, o \in Miners :
        (Processed(m) /\ Out(m).cv # "notrun" /\ ~IsNone(Out(m).reward)) =>
            (verdict[o] = "Valid" => Processed(o))

\* C23 as stated: every member of a cluster has been cross-validated, with
\* Pass, before it was clustered.
C23_CrossValidatedBeforeClustering ==
    \A m \in Benchmarked : Processed(m) /\ Out(m).cv = "Pass"

\* C25 as stated: no failure or exception met for one miner aborts the
\* round; every sampled miner is processed, and one that passed all gates is
\* handed its reward.
C25_ErrorsAreIsolated ==
    /\ pc # "aborted"
    /\ pc = "done" =>
          \A m \in Miners :
              Processed(m) /\ (Out(m).gate = "scored" => Handed(m))

\* The node was consulted by the cross-validation of this environment and
\* failed: on creating the challenge, or on validating an answer that differs
\* from the expected one.
ClientFailed(env) ==
    \/ env.create = "raise"
    \/ /\ env.response = "answer"
       /\ env.output # env.expected
       /\ env.predicate = "raise"

\* C27: when the node fails on creating the challenge or on validating the
\* miner's answer, the cross-validation is neither Pass nor Fail and no
\* reward, 0 or other, is produced and handed over for the miner.
C27_ClientFailureGivesNoVerdict ==
    \A m \in Miners :
        (Challenged(m) /\ Processed(m) /\ ClientFailed(Env)) =>
            /\ Out(m).cv = "Indeterminate"
            /\ IsNone(Out(m).reward)
            /\ ~Handed(m)

C27_Witness ==
    /\ pc = "done"
    /\ Challenged(NumMiners)
    /\ Env.create = "ok"
    /\ Env.output # Env.expected
    /\ Env.predicate = "raise"
    /\ Out(NumMiners).query = 1
    /\ ~Handed(NumMiners)
    /\ \E o \in Miners : Handed(o)

\* C29: for a response whose status code is not 200, get_reward stops at
\* the status check: it records down once, does not ping or cross-validate,
\* and returns half the miner's trust; forward hands that value over for the
\* uid.
C29_BadStatusGetsHalfTrust ==
    \A m \in Miners :
        (Processed(m) /\ responses[m].status_code # 200) =>
            /\ Out(m).gate = "status"
            /\ Out(m).down = 1 /\ uptime[m] = [up |-> 0, down |-> 1]
            /\ Out(m).ping = 0 /\ Out(m).cv = "notrun"
            /\ Out(m).challenge = 0 /\ Out(m).query = 0
            /\ Out(m).reward = Some(Trust(m) \div 2)
            /\ pc = "done" =>
                  (Handed(m) /\ HandedReward(m) = Trust(m) \div 2)

C29_Witness ==
    /\ pc = "done"
    /\ \E m \in Miners :
          /\ responses[m].status_code = 408
          /\ responses[m].output.wellformed
          /\ Trust(m) = 100
          /\ Handed(m) /\ HandedReward(m) = 50

\* C30: what update_scores receives is exactly the rewards that are not
\* None, each with the uid it was computed for, in sampled order; it is
\* called at most once in a round, and not at all when every reward is None.
C30_HandOverKeepsPairs ==
    /\ update_calls <= 1
    /\ pc # "done" => (update_calls = 0 /\ score_updates = <<>>)
    /\ pc = "done" =>
          /\ \A m \in Miners :
                /\ Handed(m) <=> ~IsNone(Out(m).reward)
                /\ Handed(m) => HandedReward(m) = Out(m).reward[1]
          /\ \A i, j \in 1..Len(score_updates) :
                i < j => score_updates[i][1] < score_updates[j][1]
          /\ update_calls = 0 <=> \A m \in Miners : IsNone(Out(m).reward)

C30_Witness ==
    /\ pc = "done"
    /\ update_calls = 1
    /\ IsNone(Out(1).reward)
    /\ Len(score_updates) = 2
    /\ score_updates[1] = <<2, 50>>
    /\ score_updates[2] = <<3, 0>>

(***************************************************************************)
(* The validator process: main, Validator.__init__ and sync_validator.     *)
(* The round above starts from a validator whose construction and syncs    *)
(* returned; here are the calls themselves, with the ways they end.        *)
(***************************************************************************)

(* The round's variables while no round runs. *)
RoundIdle ==
    /\ pc = "idle"
    /\ metagraph = PlainMetagraph
    /\ metadata = MetadataBuild(metagraph)
    /\ idx = Fresh.idx
    /\ responses = Fresh.responses
    /\ verdict = Fresh.verdict
    /\ evaluated = Fresh.evaluated
    /\ groups = Fresh.groups
    /\ answers = Fresh.answers
    /\ benchmarks_result = Fresh.benchmarks_result
    /\ benchmark_results = Fresh.benchmark_results
    /\ outcome = Fresh.outcome
    /\ challenge_env = Fresh.challenge_env
    /\ uptime = Fresh.uptime
    /\ score_updates = Fresh.score_updates
    /\ update_calls = Fresh.update_calls

round_vars == <<pc, idx, metagraph, metadata, responses, verdict, evaluated,
                groups, answers, benchmarks_result, benchmark_results,
                outcome, challenge_env, uptime, score_updates, update_calls>>

(* The process before main calls Validator(). *)
StartInit ==
    /\ RoundIdle
    /\ fetch = FetchIdle
    /\ indexer = IndexerIdle
    /\ miner = MinerIdle
    /\ codec = CodecIdle
    /\ \E v \in Versions :
          startup = [pc |-> "main", running |-> v, version_update |-> FALSE,
                     version |-> v, networks |-> <<>>, nodes |-> {},
                     cause |-> "none", exit_code |-> None]

(* main, `with Validator() as validator`, and Validator.__init__: the      *)
(* config is loaded, a node is created for each of its networks, each node *)
(* is asked for its block height in the order of the list (line 93), the   *)
(* base class builds the metagraph, then sync_validator runs.  Nothing in  *)
(* __init__ or in main catches an exception, so one ends the process with  *)
(* a traceback and status 1.                                               *)
Validator_init ==
    /\ startup.pc = "main"
    /\ \E cfg0 \in ValidatorConfigs, answering0 \in SUBSET NodeNetworks,
          cfg \in ValidatorConfigs, answering \in SUBSET NodeNetworks,
          mg \in Metagraphs :
          LET made == [startup EXCEPT !.nodes = Range(cfg0.networks),
                                      !.networks = cfg0.networks,
                                      !.version_update = cfg0.version_update,
                                      !.version = cfg0.version]
          IN  IF ~(Range(cfg0.networks) \subseteq answering0)
              THEN /\ startup' = [made EXCEPT !.pc = "crashed",
                                              !.cause = "node",
                                              !.exit_code = Some(1)]
                   /\ UNCHANGED <<metagraph, metadata>>
              ELSE /\ startup' = after_sync(made, cfg,
                                    sync_validator(cfg, made.nodes, answering,
                                                   made.running),
                                    "crashed")
                   /\ metagraph' = mg
                   /\ metadata' = MetadataBuild(mg)
    /\ UNCHANGED <<pc, idx, responses, verdict, evaluated, groups, answers,
                   benchmarks_result, benchmark_results, outcome,
                   challenge_env, uptime, score_updates, update_calls>>
    /\ UNCHANGED <<fetch, indexer, miner, codec>>

StartNext ==
    \/ Validator_init
    \/ resync_metagraph

StartSpec == StartInit /\ [][StartNext]_vars

(* C26: the validator process ends only through exit(3) of sync_validator, *)
(* taken when and only when version_update is true and the configured      *)
(* version differs from the running one; a failure of the authoritative    *)
(* client does not end the process.                                        *)
C26_OnlyVersionMismatchEndsProcess ==
    /\ startup.pc \in {"exited", "crashed"}
          => /\ startup.pc = "exited"
             /\ startup.exit_code = Some(3)
             /\ startup.version_update
             /\ startup.version # startup.running
    /\ (startup.pc \in {"running", "exited"}
          /\ startup.version_update
          /\ startup.version # startup.running)
          => startup.pc = "exited"

(***************************************************************************)
(* storage.py: the fetch of one neuron's metadata from the chain,          *)
(* process_miner of get_miners_metadata and process_neuron of              *)
(* get_validator_metadata.  The two functions have the same body but for   *)
(* the class whose from_compact decodes the commitment.                    *)
(***************************************************************************)

(* The attempts of a fetch are counted up to this number and no further;   *)
(* the code counts nothing.                                                *)
MaxAttempts == 3

(* What one pass through the try block meets: a commitment that decodes, a *)
(* commitment from_compact raises on, no commitment (None), or an          *)
(* exception of the chain client.                                          *)
ChainAnswers ==
    {"commitment", "malformed", "absent", "WebSocketConnectionClosed",
     "TimeoutError", "int() argument", "Exception"}

(* One pass through the body of `while True`: where the loop goes and what *)
(* the function returns if it returns.  A present commitment is returned   *)
(* decoded; an absent one falls out of the try and the loop starts again   *)
(* at once; the three retried errors sleep bt.__blocktime__ first; any     *)
(* other exception, from_compact's included, returns None.                 *)
process_miner(answer) ==
    CASE answer = "commitment" -> [pc |-> "returned", result |-> "metadata"]
      [] answer = "absent" -> [pc |-> "try", result |-> "pending"]
      [] answer \in {"WebSocketConnectionClosed", "TimeoutError",
                     "int() argument"}
           -> [pc |-> "sleep", result |-> "pending"]
      [] OTHER -> [pc |-> "returned", result |-> "None"]

(* A fetch is submitted to the executor for a hotkey. *)
FetchInit ==
    /\ RoundIdle
    /\ startup = StartupIdle
    /\ indexer = IndexerIdle
    /\ miner = MinerIdle
    /\ codec = CodecIdle
    /\ \E k \in {"process_miner", "process_neuron"}, h \in Miners :
          fetch = [pc |-> "try", function |-> k, hotkey |-> h,
                   attempts |-> 0, sleeps |-> 0, answer |-> "none",
                   result |-> "pending"]

(* The try block runs once, lines 78-95. *)
process_miner_try ==
    /\ fetch.pc = "try"
    /\ \E answer \in ChainAnswers :
          LET r == process_miner(answer)
          IN  fetch' = [fetch EXCEPT
                          !.pc = r.pc,
                          !.result = r.result,
                          !.answer = answer,
                          !.attempts = IF @ < MaxAttempts THEN @ + 1 ELSE @]
    /\ UNCHANGED <<round_vars, startup, indexer, miner, codec>>

(* time.sleep(bt.__blocktime__) returns and the loop starts again. *)
process_miner_sleep ==
    /\ fetch.pc = "sleep"
    /\ fetch' = [fetch EXCEPT
                   !.pc = "try",
                   !.sleeps = IF @ < MaxAttempts THEN @ + 1 ELSE @]
    /\ UNCHANGED <<round_vars, startup, indexer, miner, codec>>

FetchNext ==
    \/ process_miner_try
    \/ process_miner_sleep

(* The worker thread of the executor keeps running the function. *)
FetchSpec == FetchInit /\ [][FetchNext]_vars /\ WF_vars(FetchNext)

(* C24: the metadata fetch of one neuron terminates whatever the chain     *)
(* client does: it returns the metadata or skips the neuron after a        *)
(* bounded number of attempts.                                             *)
C24_FetchTerminates == <>(fetch.pc = "returned")

(***************************************************************************)
(* miners/bitcoin/indexer.py: index_blocks and the shutdown handler.       *)
(* indexer.pc is where index_blocks is: at the test of `while` (line 22),  *)
(* reading the heights (23-26), in time.sleep (28), indexing a block       *)
(* (32-36), at the test of the flag after a block (38), or returned.       *)
(***************************************************************************)

(* The node's chain grows to this height and no further. *)
MaxHeight == 3

(* A variant of index_blocks_check that never breaks out of the for loop. *)
index_blocks_check_no_break ==
    /\ indexer.pc = "check"
    /\ indexer' =
          IF indexer.block_height < indexer.current_block_height
          THEN [indexer EXCEPT !.block_height = @ + 1, !.pc = "indexing"]
          ELSE [indexer EXCEPT !.pc = "while"]
    /\ UNCHANGED <<round_vars, startup, fetch, miner, codec>>

(* index_blocks is called: the graph holds blocks up to `latest`, the node *)
(* is at height `node`, no signal has arrived.                             *)
IndexerInit ==
    /\ RoundIdle
    /\ startup = StartupIdle
    /\ fetch = FetchIdle
    /\ miner = MinerIdle
    /\ codec = CodecIdle
    /\ \E g \in 0..MaxHeight, n \in 0..MaxHeight :
          indexer = [pc |-> "while", shutdown_flag |-> FALSE,
                     latest |-> g, node |-> n,
                     start_height |-> 0, current_block_height |-> 0,
                     block_height |-> 0, indexed |-> <<>>,
                     signal_at |-> "none", signal_block |-> 0,
                     signal_indexed |-> 0]

(* SIGINT or SIGTERM is delivered: the handler sets the flag, wherever     *)
(* index_blocks is.  signal_at, signal_block and signal_indexed keep where *)
(* index_blocks was, the block it was at and the number of blocks indexed  *)
(* when the first signal arrived.                                          *)
shutdown_handler ==
    /\ indexer.pc # "returned"
    /\ indexer' =
          IF indexer.shutdown_flag
          THEN indexer
          ELSE [indexer EXCEPT !.shutdown_flag = TRUE,
                               !.signal_at = indexer.pc,
                               !.signal_block = indexer.block_height,
                               !.signal_indexed = Len(indexer.indexed)]
    /\ UNCHANGED <<round_vars, startup, fetch, miner, codec>>

(* The bitcoin node learns of a new block. *)
new_block ==
    /\ indexer.pc # "returned"
    /\ indexer.node < MaxHeight
    /\ indexer' = [indexer EXCEPT !.node = @ + 1]
    /\ UNCHANGED <<round_vars, startup, fetch, miner, codec>>

(* `while not shutdown_flag`, line 22. *)
index_blocks_while ==
    /\ indexer.pc = "while"
    /\ indexer' = [indexer EXCEPT
                     !.pc = IF indexer.shutdown_flag THEN "returned"
                            ELSE "heights"]
    /\ UNCHANGED <<round_vars, startup, fetch, miner, codec>>

(* A variant of index_blocks_heights whose range starts at the graph's     *)
(* latest block instead of the block after it.                             *)
index_blocks_heights_from_latest ==
    /\ indexer.pc = "heights"
    /\ LET start_height == indexer.latest
           current_block_height == indexer.node
       IN  indexer' =
              IF start_height > current_block_height
              THEN [indexer EXCEPT
                      !.start_height = start_height,
                      !.current_block_height = current_block_height,
                      !.pc = "sleep"]
              ELSE [indexer EXCEPT
                      !.start_height = start_height,
                      !.current_block_height = current_block_height,
                      !.block_height = start_height,
                      !.pc = "indexing"]
    /\ UNCHANGED <<round_vars, startup, fetch, miner, codec>>

(* Lines 23-31: the two heights are read; with nothing to index the loop   *)
(* sleeps, otherwise the for loop starts at start_height.                  *)
index_blocks_heights ==
    /\ indexer.pc = "heights"
    /\ LET start_height == indexer.latest + 1
           current_block_height == indexer.node
       IN  indexer' =
              IF start_height > current_block_height
              THEN [indexer EXCEPT
                      !.start_height = start_height,
                      !.current_block_height = current_block_height,
                      !.pc = "sleep"]
              ELSE [indexer EXCEPT
                      !.start_height = start_height,
                      !.current_block_height = current_block_height,
                      !.block_height = start_height,
                      !.pc = "indexing"]
    /\ UNCHANGED <<round_vars, startup, fetch, miner, codec>>

(* time.sleep(10) returns and `continue` goes to the test of the while. *)
index_blocks_sleep ==
    /\ indexer.pc = "sleep"
    /\ indexer' = [indexer EXCEPT !.pc = "while"]
    /\ UNCHANGED <<round_vars, startup, fetch, miner, codec>>

(* Lines 32-36: the transactions of the block are read and its graph is    *)
(* created, which makes the block the graph's latest.                      *)
index_blocks_create ==
    /\ indexer.pc = "indexing"
    /\ indexer' = [indexer EXCEPT
                     !.indexed = Append(@, indexer.block_height),
                     !.latest = indexer.block_height,
                     !.pc = "check"]
    /\ UNCHANGED <<round_vars, startup, fetch, miner, codec>>

(* Lines 38-40 and the next turn of the for loop: with the flag set the    *)
(* loop is left; otherwise the next height of the range is taken, or the   *)
(* range is exhausted.                                                     *)
index_blocks_check ==
    /\ indexer.pc = "check"
    /\ indexer' =
          IF indexer.shutdown_flag
          THEN [indexer EXCEPT !.pc = "while"]
          ELSE IF indexer.block_height < indexer.current_block_height
          THEN [indexer EXCEPT !.block_height = @ + 1, !.pc = "indexing"]
          ELSE [indexer EXCEPT !.pc = "while"]
    /\ UNCHANGED <<round_vars, startup, fetch, miner, codec>>

(* The steps of index_blocks itself. *)
index_blocks ==
    \/ index_blocks_while
    \/ index_blocks_heights
    \/ index_blocks_sleep
    \/ index_blocks_create
    \/ index_blocks_check

IndexerNext ==
    \/ index_blocks_while
    \/ index_blocks_heights
    \/ index_blocks_sleep
    \/ index_blocks_create
    \/ index_blocks_check
    \/ shutdown_handler
    \/ new_block

(* The process keeps running index_blocks: every call of the node, the     *)
(* graph and time.sleep returns.  Signals and new blocks need not come.    *)
IndexerSpec == IndexerInit /\ [][IndexerNext]_vars /\ WF_vars(index_blocks)

(* C28: a signal that arrives while a block is being indexed lets that     *)
(* block's create_transaction_graph complete and no other block start; a   *)
(* signal that arrives during the wait for new blocks lets no block be     *)
(* indexed; in both cases index_blocks returns.                            *)
C28_GracefulShutdown ==
    /\ [](indexer.signal_at = "indexing"
            => /\ Len(indexer.indexed) <= indexer.signal_indexed + 1
               /\ indexer.pc = "indexing"
                    => /\ indexer.block_height = indexer.signal_block
                       /\ Len(indexer.indexed) = indexer.signal_indexed
               /\ indexer.pc = "returned"
                    => /\ Len(indexer.indexed) = indexer.signal_indexed + 1
                       /\ indexer.indexed[Len(indexer.indexed)]
                            = indexer.signal_block)
    /\ [](indexer.signal_at = "sleep"
            => /\ Len(indexer.indexed) = indexer.signal_indexed
               /\ indexer.pc # "indexing")
    /\ (indexer.signal_at \in {"indexing", "sleep"})
          ~> (indexer.pc = "returned")

(* The signal came while block 2 of the range 2..3 was indexed: block 2    *)
(* was completed, block 3 was not started, index_blocks returned.          *)
C28_Witness ==
    /\ indexer.pc = "returned"
    /\ indexer.signal_at = "indexing"
    /\ indexer.signal_block = 2
    /\ indexer.current_block_height = 3
    /\ indexer.indexed = <<2>>

(* C31: every height index_blocks indexes is the graph's latest height     *)
(* plus one and at most the node's height read in that turn of the while   *)
(* loop, so the indexed heights are consecutive, none twice and none       *)
(* skipped, within and across turns of the loop.                           *)
C31_ConsecutiveHeights ==
    /\ [][Len(indexer'.indexed) # Len(indexer.indexed)
            => /\ indexer'.indexed
                    = Append(indexer.indexed, indexer.latest + 1)
               /\ indexer.latest + 1 <= indexer.current_block_height
               /\ indexer.latest + 1 >= indexer.start_height]_vars
    /\ [](\A i \in 1..(Len(indexer.indexed) - 1) :
             indexer.indexed[i + 1] = indexer.indexed[i] + 1)

(* Blocks 1 and 2 were indexed in one turn of the while loop, block 3 in a *)
(* later turn that started at height 3.                                    *)
C31_Witness ==
    /\ indexer.indexed = <<1, 2, 3>>
    /\ indexer.start_height = 3
    /\ indexer.current_block_height = 3

(***************************************************************************)
(* miners/miner.py: Miner.should_set_weights and the clock it keeps in     *)
(* last_weight_update.                                                     *)
(***************************************************************************)

(* The chain is followed up to this block. *)
MaxBlock == 4

(* should_set_weights is called at most this many times. *)
MaxCalls == 3

(* self.step is counted up to this number. *)
MaxStep == 2

(* Values of miner_config.set_weights_frequency. *)
SetWeightsFrequencies == {1, 2, 1000}

(* A variant of should_set_weights that also fires when exactly            *)
(* set_weights_frequency blocks have passed.                               *)
should_set_weights_at_frequency(step, set_weights, frequency, block, block_set, last_weight_update) ==
    IF step = 0
    THEN [result |-> "False", last_weight_update |-> last_weight_update]
    ELSE IF set_weights = FALSE
    THEN [result |-> "False", last_weight_update |-> last_weight_update]
    ELSE IF block - last_weight_update >= frequency
    THEN [result |-> "True", last_weight_update |-> block_set]
    ELSE [result |-> "False", last_weight_update |-> last_weight_update]

(* should_set_weights, lines 253-267.  self.block reads the chain: `block` *)
(* is the value read for the comparison of line 264 and `block_set` the    *)
(* value read for the assignment of line 265.                              *)
should_set_weights(step, set_weights, frequency, block, block_set, last_weight_update) ==
    IF step = 0
    THEN [result |-> "False", last_weight_update |-> last_weight_update]
    ELSE IF set_weights = FALSE
    THEN [result |-> "False", last_weight_update |-> last_weight_update]
    ELSE IF block - last_weight_update > frequency
    THEN [result |-> "True", last_weight_update |-> block_set]
    ELSE [result |-> "False", last_weight_update |-> last_weight_update]

(* Miner.__init__, line 97, with the miner config loaded at line 132: the  *)
(* clock starts 1000 blocks behind the chain.  calls, trues, true_block,   *)
(* returned and compared_block keep the history of should_set_weights:     *)
(* the number of calls, of calls that returned True, the block at the      *)
(* latest of those, the latest return value and the block it compared.     *)
WeightsInit ==
    /\ RoundIdle
    /\ startup = StartupIdle
    /\ fetch = FetchIdle
    /\ indexer = IndexerIdle
    /\ codec = CodecIdle
    /\ \E sw \in BOOLEAN, f \in SetWeightsFrequencies :
          miner = [pc |-> "run", step |-> 0, block |-> 0,
                   last_weight_update |-> 0 - 1000,
                   set_weights |-> sw, set_weights_frequency |-> f,
                   calls |-> 0, trues |-> 0, true_block |-> 0,
                   returned |-> "none", compared_block |-> 0]

(* The chain gets a block. *)
Miner_block ==
    /\ miner.pc = "run"
    /\ miner.block < MaxBlock
    /\ miner' = [miner EXCEPT !.block = @ + 1]
    /\ UNCHANGED <<round_vars, startup, fetch, indexer, codec>>

(* The run loop of the base class finishes a step. *)
Miner_step ==
    /\ miner.pc = "run"
    /\ miner.step < MaxStep
    /\ miner' = [miner EXCEPT !.step = @ + 1]
    /\ UNCHANGED <<round_vars, startup, fetch, indexer, codec>>

(* Miner.resync_metagraph, lines 249-251: the miner config is loaded anew. *)
Miner_resync_metagraph ==
    /\ miner.pc = "run"
    /\ \E sw \in BOOLEAN, f \in SetWeightsFrequencies :
          miner' = [miner EXCEPT !.set_weights = sw,
                                 !.set_weights_frequency = f]
    /\ UNCHANGED <<round_vars, startup, fetch, indexer, codec>>

(* A call of should_set_weights; the chain may get a block between the     *)
(* two reads of self.block.                                                *)
Miner_should_set_weights ==
    /\ miner.pc = "run"
    /\ miner.calls < MaxCalls
    /\ \E block_set \in {miner.block, miner.block + 1} :
          /\ block_set <= MaxBlock
          /\ LET r == should_set_weights(miner.step, miner.set_weights,
                         miner.set_weights_frequency, miner.block,
                         block_set, miner.last_weight_update)
             IN  miner' = [miner EXCEPT
                     !.last_weight_update = r.last_weight_update,
                     !.block = IF r.result = "True" THEN block_set ELSE @,
                     !.calls = @ + 1,
                     !.trues = IF r.result = "True" THEN @ + 1 ELSE @,
                     !.true_block = IF r.result = "True" THEN block_set
                                    ELSE @,
                     !.returned = r.result,
                     !.compared_block = miner.block]
    /\ UNCHANGED <<round_vars, startup, fetch, indexer, codec>>

WeightsNext ==
    \/ Miner_block
    \/ Miner_step
    \/ Miner_resync_metagraph
    \/ Miner_should_set_weights

WeightsSpec == WeightsInit /\ [][WeightsNext]_vars

(* C32: a call of should_set_weights returns False at step 0 and while     *)
(* set_weights is disabled; it returns True only when block minus          *)
(* last_weight_update exceeds set_weights_frequency, and then makes        *)
(* last_weight_update the current block; after an earlier True the chain   *)
(* has advanced by more than set_weights_frequency blocks since; a call    *)
(* that returns False leaves last_weight_update as it was.                 *)
C32_WeightsClock ==
    [][miner'.calls # miner.calls
         => /\ (miner.step = 0 \/ miner.set_weights = FALSE)
                  => miner'.returned = "False"
            /\ miner'.returned = "True"
                  => /\ miner'.compared_block - miner.last_weight_update
                          > miner.set_weights_frequency
                     /\ miner'.last_weight_update = miner'.block
                     /\ miner.trues > 0
                          => miner'.block - miner.true_block
                               > miner.set_weights_frequency
            /\ miner'.returned = "False"
                  => miner'.last_weight_update = miner.last_weight_update
       ]_vars

(* Two calls returned True, the second one two blocks after the first      *)
(* with a frequency of 1.                                                  *)
C32_Witness ==
    /\ miner.pc = "run"
    /\ miner.trues = 2
    /\ miner.returned = "True"
    /\ miner.set_weights_frequency = 1
    /\ miner.last_weight_update = miner.block

(***************************************************************************)
(* The registration loops: Miner.miner_register (miners/miner.py) and      *)
(* MinerRegister.miner_register (miners/register.py).  Costs and           *)
(* thresholds are in tenths of a TAO.                                      *)
(***************************************************************************)

(* Iterations and burned_register calls are counted up to this number. *)
MaxRegistrations == 2

(* Recycle costs subtensor.recycle can report. *)
RecycleCosts == {5, 10, 21, 30}

(* Register thresholds: the defaults of the two functions, 1 and 2.1 TAO. *)
RegisterThresholds == {10, 21}

(* What a burned_register call can do. *)
RegisterResults == {"True", "False", "raise"}

(* A variant of miner_register that leaves the loop after any attempt. *)
miner_register_break_after_attempt(function, register_threshold, current_recycle, result) ==
    IF current_recycle <= register_threshold
    THEN [called |-> TRUE, result |-> result,
          pc |-> IF result = "raise" THEN "raised" ELSE "returned"]
    ELSE [called |-> FALSE, result |-> "none", pc |-> "sleep"]

(* One turn of `while True` in either function, from the cost read at the  *)
(* top of the turn and what burned_register does if it is called: whether  *)
(* it is called, its result, and where the function goes.  After a failed  *)
(* attempt Miner.miner_register sleeps (line 331) and                      *)
(* MinerRegister.miner_register starts the next turn at once.              *)
miner_register(function, register_threshold, current_recycle, result) ==
    IF current_recycle <= register_threshold
    THEN [called |-> TRUE, result |-> result,
          pc |-> CASE result = "True" -> "returned"
                   [] result = "raise" -> "raised"
                   [] function = "Miner.miner_register" -> "sleep"
                   [] OTHER -> "read"]
    ELSE [called |-> FALSE, result |-> "none", pc |-> "sleep"]

(* One of the two functions is called, with the threshold of the           *)
(* environment.                                                            *)
RegisterInit ==
    /\ RoundIdle
    /\ startup = StartupIdle
    /\ fetch = FetchIdle
    /\ indexer = IndexerIdle
    /\ codec = CodecIdle
    /\ \E f \in {"Miner.miner_register", "MinerRegister.miner_register"},
          t \in RegisterThresholds :
          miner = [pc |-> "enter", function |-> f, register_threshold |-> t,
                   current_recycle |-> 0, called |-> FALSE,
                   result |-> "none", iterations |-> 0, attempts |-> 0]

(* The lines before the loop.  MinerRegister.miner_register raises when    *)
(* the subnet does not exist (lines 64-65).                                *)
miner_register_enter ==
    /\ miner.pc = "enter"
    /\ \E subnet_exists \in BOOLEAN :
          miner' = [miner EXCEPT
                      !.pc = IF miner.function = "MinerRegister.miner_register"
                                /\ ~subnet_exists
                             THEN "raised" ELSE "read"]
    /\ UNCHANGED <<round_vars, startup, fetch, indexer, codec>>

(* One turn of the loop: the cost is read, burned_register is called or    *)
(* not.                                                                    *)
miner_register_iteration ==
    /\ miner.pc = "read"
    /\ \E cost \in RecycleCosts, result \in RegisterResults :
          LET r == miner_register(miner.function, miner.register_threshold,
                                  cost, result)
          IN  miner' = [miner EXCEPT
                  !.pc = r.pc,
                  !.current_recycle = cost,
                  !.called = r.called,
                  !.result = r.result,
                  !.iterations = IF @ < MaxRegistrations THEN @ + 1 ELSE @,
                  !.attempts = IF r.called /\ @ < MaxRegistrations
                               THEN @ + 1 ELSE @]
    /\ UNCHANGED <<round_vars, startup, fetch, indexer, codec>>

(* time.sleep(randint(1, 120)) returns. *)
miner_register_sleep ==
    /\ miner.pc = "sleep"
    /\ miner' = [miner EXCEPT !.pc = "read"]
    /\ UNCHANGED <<round_vars, startup, fetch, indexer, codec>>

RegisterNext ==
    \/ miner_register_enter
    \/ miner_register_iteration
    \/ miner_register_sleep

RegisterSpec == RegisterInit /\ [][RegisterNext]_vars

(* C33: burned_register is called only in a turn whose freshly read cost   *)
(* is at most the threshold; the loop returns only after a call that       *)
(* reported success; after a failed attempt or a cost above the threshold  *)
(* the loop goes on.                                                       *)
C33_RegisterLoop ==
    /\ miner.called => miner.current_recycle <= miner.register_threshold
    /\ miner.pc = "returned" => (miner.called /\ miner.result = "True")
    /\ (miner.iterations > 0 /\ (~miner.called \/ miner.result = "False"))
          => miner.pc \in {"read", "sleep"}
    /\ (miner.iterations > 0
          /\ miner.current_recycle > miner.register_threshold)
          => ~miner.called

(* Miner.miner_register returned from its second attempt, the first one    *)
(* having failed.                                                          *)
C33_Witness ==
    /\ miner.pc = "returned"
    /\ miner.function = "Miner.miner_register"
    /\ miner.attempts = 2
    /\ miner.current_recycle = 10
    /\ miner.register_threshold = 10

(***************************************************************************)
(* miners/miner.py: the five request handlers of the miner's axon.  An     *)
(* output is "None", "received" (what the synapse held when it came in),   *)
(* "fresh" (made by this call), or a dict named by its keys.  `failure`    *)
(* is where the try block raises: "search" in the graph search call,       *)
(* "after" in a later statement of the block, "none" nowhere.              *)
(***************************************************************************)

Handlers == {"block_check", "discovery", "query", "challenge", "benchmark"}

(* config.network of the miner. *)
MinerNetworks == {"bitcoin", "ethereum", "other"}

ReceivedOutputs == {"None", "received"}

Failures == {"none", "search", "after"}

(* A variant of discovery without the except clause. *)
discovery_no_except(received, failure) ==
    IF failure = "none"
    THEN [output |-> "fresh", propagated |-> FALSE]
    ELSE [output |-> received, propagated |-> TRUE]

(* block_check, lines 133-144. *)
block_check(received, failure) ==
    IF failure = "none"
    THEN [output |-> "fresh", propagated |-> FALSE]
    ELSE [output |-> "None", propagated |-> FALSE]

(* discovery, lines 146-162. *)
discovery(received, failure) ==
    IF failure = "none"
    THEN [output |-> "fresh", propagated |-> FALSE]
    ELSE [output |-> "None", propagated |-> FALSE]

(* query, lines 164-171: the output is made an empty dict before the try,  *)
(* whose only statement is the search call.                                *)
query(received, failure) ==
    IF failure = "search"
    THEN [output |-> "dict:error", propagated |-> FALSE]
    ELSE [output |-> "dict:result", propagated |-> FALSE]

(* challenge, lines 173-193: a network that is neither bitcoin nor         *)
(* ethereum calls nothing and leaves the output.                           *)
challenge(network, received, failure) ==
    IF network \notin {"bitcoin", "ethereum"}
    THEN [output |-> IF failure = "after" THEN "None" ELSE received,
          propagated |-> FALSE]
    ELSE IF failure = "none"
    THEN [output |-> "fresh", propagated |-> FALSE]
    ELSE [output |-> "None", propagated |-> FALSE]

(* benchmark, lines 195-205: the except clause only logs.  A failure in    *)
(* the search call or in result[0] leaves the output; one in the logging   *)
(* of line 202 comes after the assignment.                                 *)
benchmark(received, failure, after_assignment) ==
    CASE failure = "none" -> [output |-> "fresh", propagated |-> FALSE]
      [] failure = "search" -> [output |-> received, propagated |-> FALSE]
      [] OTHER -> [output |-> IF after_assignment THEN "fresh" ELSE received,
                   propagated |-> FALSE]

(* A request has come in for one of the handlers. *)
HandlerInit ==
    /\ RoundIdle
    /\ startup = StartupIdle
    /\ fetch = FetchIdle
    /\ indexer = IndexerIdle
    /\ codec = CodecIdle
    /\ \E h \in Handlers, n \in MinerNetworks, r \in ReceivedOutputs,
          f \in Failures, a \in BOOLEAN :
          miner = [pc |-> "request", handler |-> h, network |-> n,
                   received |-> r, failure |-> f, after_assignment |-> a,
                   output |-> r, propagated |-> FALSE]

(* The handler runs and returns the synapse, or raises. *)
Miner_serve ==
    /\ miner.pc = "request"
    /\ LET r == CASE miner.handler = "block_check"
                       -> block_check(miner.received, miner.failure)
                  [] miner.handler = "discovery"
                       -> discovery(miner.received, miner.failure)
                  [] miner.handler = "query"
                       -> query(miner.received, miner.failure)
                  [] miner.handler = "challenge"
                       -> challenge(miner.network, miner.received,
                                    miner.failure)
                  [] OTHER
                       -> benchmark(miner.received, miner.failure,
                                    miner.after_assignment)
       IN  miner' = [miner EXCEPT !.pc = "served",
                                  !.output = r.output,
                                  !.propagated = r.propagated]
    /\ UNCHANGED <<round_vars, startup, fetch, indexer, codec>>

HandlerNext == Miner_serve

HandlerSpec == HandlerInit /\ [][HandlerNext]_vars

(* The handler was served while its graph search call raised. *)
SearchFailed(h) ==
    /\ miner.pc = "served"
    /\ miner.handler = h
    /\ miner.failure = "search"
    /\ (h = "challenge" => miner.network \in {"bitcoin", "ethereum"})

(* C34: no handler lets an exception of its try block out; with a failed   *)
(* graph search, discovery, challenge and block_check return output None,  *)
(* benchmark returns the output as received, and query returns a dict      *)
(* with an error entry and no result entry.                                *)
C34_HandlersContainFailures ==
    /\ miner.pc = "served" => ~miner.propagated
    /\ \A h \in {"discovery", "challenge", "block_check"} :
          SearchFailed(h) => miner.output = "None"
    /\ SearchFailed("benchmark") => miner.output = miner.received
    /\ SearchFailed("query") => miner.output = "dict:error"

(* discovery was served with a failed graph search and a synapse that      *)
(* came in holding an output.                                              *)
C34_Witness ==
    /\ SearchFailed("discovery")
    /\ miner.received = "received"
    /\ miner.output = "None"

(***************************************************************************)
(* storage.py: Metadata.to_compact and the from_compact of MinerMetadata   *)
(* and ValidatorMetadata.  A string is a sequence of one-character         *)
(* strings; a metadata value is the sequence of its fields in the order    *)
(* of declaration, each with its key, its type and its value.              *)
(***************************************************************************)

(* The longest value of a string field. *)
MaxLen == 2

(* The characters the string fields are made of. *)
Chars == {"a", ":", ",", "'", "\""}

Strings == UNION {[1..n -> Chars] : n \in 0..MaxLen}

Digits == <<"0", "1", "2", "3", "4", "5", "6", "7", "8", "9">>

(* `c in s`. *)
Contains(s, c) == \E i \in 1..Len(s) : s[i] = c

(* s.find(c) + 1: the first position of c in s, 0 when there is none. *)
Find(s, c) ==
    IF Contains(s, c)
    THEN CHOOSE i \in 1..Len(s) :
            s[i] = c /\ \A j \in 1..(i - 1) : s[j] # c
    ELSE 0

(* repr of a non-negative int. *)
RECURSIVE repr_int(_)
repr_int(n) ==
    IF n < 10 THEN <<Digits[n + 1]>>
    ELSE repr_int(n \div 10) \o <<Digits[(n % 10) + 1]>>

(* The body of a str's repr: the quote in use and the backslash are        *)
(* escaped.                                                                *)
RECURSIVE repr_escape(_, _)
repr_escape(s, quote) ==
    IF Len(s) = 0 THEN <<>>
    ELSE (IF Head(s) = quote \/ Head(s) = "\\"
          THEN <<"\\", Head(s)>> ELSE <<Head(s)>>)
         \o repr_escape(Tail(s), quote)

(* repr of a str: single quotes, unless the string holds a single quote    *)
(* and no double quote.                                                    *)
repr_str(s) ==
    LET quote == IF Contains(s, "'") /\ ~Contains(s, "\"")
                 THEN "\"" ELSE "'"
    IN  <<quote>> \o repr_escape(s, quote) \o <<quote>>

(* f"{key}:{repr(getattr(self, key))}" of one field. *)
compact_item(field) ==
    field.key \o <<":">>
       \o (IF field.type = "int" THEN repr_int(field.value)
           ELSE repr_str(field.value))

(* Metadata.to_compact, lines 14-16: the items joined with commas. *)
RECURSIVE to_compact(_)
to_compact(m) ==
    IF Len(m) = 0 THEN <<>>
    ELSE IF Len(m) = 1 THEN compact_item(m[1])
    ELSE compact_item(m[1]) \o <<",">> \o to_compact(Tail(m))

(* s.split(sep). *)
RECURSIVE split(_, _)
split(s, sep) ==
    LET i == Find(s, sep)
    IN  IF i = 0 THEN <<s>>
        ELSE <<SubSeq(s, 1, i - 1)>> \o split(SubSeq(s, i + 1, Len(s)), sep)

RECURSIVE lstrip(_, _)
lstrip(s, c) ==
    IF Len(s) > 0 /\ Head(s) = c THEN lstrip(Tail(s), c) ELSE s

RECURSIVE rstrip(_, _)
rstrip(s, c) ==
    IF Len(s) > 0 /\ s[Len(s)] = c
    THEN rstrip(SubSeq(s, 1, Len(s) - 1), c) ELSE s

(* s.strip(c). *)
strip(s, c) == rstrip(lstrip(s, c), c)

(* Whether int(s) succeeds for a string of these characters and digits. *)
IsInt(s) ==
    /\ Len(s) > 0
    /\ \A i \in 1..Len(s) : \E d \in 1..10 : Digits[d] = s[i]

(* int(s). *)
RECURSIVE int(_)
int(s) ==
    IF Len(s) = 0 THEN 0
    ELSE 10 * int(SubSeq(s, 1, Len(s) - 1))
         + (CHOOSE d \in 0..9 : Digits[d + 1] = s[Len(s)])

(* The fields of the two classes, lines 18-24 and 34-37. *)
MinerMetadataFields ==
    <<[key |-> <<"b">>, type |-> "int"], [key |-> <<"v">>, type |-> "int"],
      [key |-> <<"d", "i">>, type |-> "str"],
      [key |-> <<"n">>, type |-> "int"],
      [key |-> <<"m", "t">>, type |-> "int"],
      [key |-> <<"r", "i">>, type |-> "str"]>>

ValidatorMetadataFields ==
    <<[key |-> <<"b">>, type |-> "int"], [key |-> <<"v">>, type |-> "int"],
      [key |-> <<"d", "i">>, type |-> "str"]>>

(* from_compact, lines 26-32 and 39-45: the string is split at commas,     *)
(* each item at its first colon (an item without a colon raises            *)
(* ValueError), single quotes are stripped from both ends of the value, a  *)
(* later item with the same key replaces an earlier one, and the class is  *)
(* built from the dict: a missing field or an int field that int() does    *)
(* not parse raises, other keys are ignored.                                *)
from_compact(fields, compact_str) ==
    LET items == split(compact_str, ",")
        Raised == [raised |-> TRUE, value |-> <<>>]
    IN  IF \E i \in 1..Len(items) : Find(items[i], ":") = 0
        THEN Raised
        ELSE
          LET key(i) == SubSeq(items[i], 1, Find(items[i], ":") - 1)
              value(i) == strip(SubSeq(items[i], Find(items[i], ":") + 1,
                                       Len(items[i])), "'")
              Has(k) == \E i \in 1..Len(items) : key(i) = k
              Get(k) == value(CHOOSE i \in 1..Len(items) :
                                /\ key(i) = k
                                /\ \A j \in (i + 1)..Len(items) : key(j) # k)
          IN  IF \E f \in 1..Len(fields) :
                    \/ ~Has(fields[f].key)
                    \/ fields[f].type = "int" /\ ~IsInt(Get(fields[f].key))
              THEN Raised
              ELSE [raised |-> FALSE,
                    value |-> [f \in 1..Len(fields) |->
                       [key |-> fields[f].key, type |-> fields[f].type,
                        value |-> IF fields[f].type = "int"
                                  THEN int(Get(fields[f].key))
                                  ELSE Get(fields[f].key)]]]

(* A metadata value of the class with these fields: b is given, the other  *)
(* int fields are 1, the string field named by `varied` holds s and the    *)
(* other string fields hold "a".                                           *)
MetadataValue(fields, b, varied, s) ==
    [f \in 1..Len(fields) |->
       [key |-> fields[f].key, type |-> fields[f].type,
        value |-> IF fields[f].type = "int"
                  THEN (IF fields[f].key = <<"b">> THEN b ELSE 1)
                  ELSE (IF fields[f].key = varied THEN s ELSE <<"a">>)]]

(* A MinerMetadata or a ValidatorMetadata value is at hand. *)
CodecInit ==
    /\ RoundIdle
    /\ startup = StartupIdle
    /\ fetch = FetchIdle
    /\ indexer = IndexerIdle
    /\ miner = MinerIdle
    /\ \E c \in {"MinerMetadata", "ValidatorMetadata"}, b \in {7, 12},
          k \in {<<"d", "i">>, <<"r", "i">>}, s \in Strings :
          /\ c = "ValidatorMetadata" => k = <<"d", "i">>
          /\ codec = [pc |-> "value", class |-> c,
                      value |-> MetadataValue(
                                   IF c = "MinerMetadata"
                                   THEN MinerMetadataFields
                                   ELSE ValidatorMetadataFields, b, k, s),
                      varied |-> s,
                      compact |-> <<>>,
                      decoded |-> [raised |-> FALSE, value |-> <<>>]]

(* The value is encoded, as store_miner_metadata and                       *)
(* store_validator_metadata do before they commit it.                      *)
Metadata_to_compact ==
    /\ codec.pc = "value"
    /\ codec' = [codec EXCEPT !.pc = "encoded",
                              !.compact = to_compact(codec.value)]
    /\ UNCHANGED <<round_vars, startup, fetch, indexer, miner>>

(* The commitment is decoded, as process_miner and process_neuron do. *)
Metadata_from_compact ==
    /\ codec.pc = "encoded"
    /\ codec' = [codec EXCEPT
                   !.pc = "decoded",
                   !.decoded = from_compact(
                                  IF codec.class = "MinerMetadata"
                                  THEN MinerMetadataFields
                                  ELSE ValidatorMetadataFields,
                                  codec.compact)]
    /\ UNCHANGED <<round_vars, startup, fetch, indexer, miner>>

CodecNext ==
    \/ Metadata_to_compact
    \/ Metadata_from_compact

CodecSpec == CodecInit /\ [][CodecNext]_vars

(* C35: decoding the compact string of a metadata value gives the value    *)
(* back, whatever characters its string fields hold.                       *)
C35_CompactRoundTrip ==
    codec.pc = "decoded"
       => /\ ~codec.decoded.raised
          /\ codec.decoded.value = codec.value

====
